---- MODULE Spec2Model ----
(***************************************************************************)
(* Vehicle listing API: the repository layer (filtered, paginated list;    *)
(* lookups by id and by VRM) and the HTTP handlers in front of it, over a  *)
(* PostgreSQL table of vehicles.                                           *)
(*                                                                         *)
(* Text values are sequences of one-character strings, so that LOWER,      *)
(* LIKE and CAST(... AS INTEGER) are computed, not assumed.                *)
(***************************************************************************)
EXTENDS Integers, Sequences, FiniteSets, TLC

(***************************************************************************)
(* Bounds of the model.                                                    *)
(***************************************************************************)
MaxRecords == 2

MaxPage == 3

MaxPerPage == 2

\* Records of a small seed fixture.
FixtureLen == 2

\* Records of the large seed fixture beyond one full batch.
Overhang == 1

\* Longest collection of an array column.
MaxElems == 2

\* Times a process is started.
MaxRuns == 2

(***************************************************************************)
(* Program constants.                                                      *)
(***************************************************************************)
DefaultPage == 1

DefaultResultsPerPage == 10

MaxResultsPerPage == 100

StatusOK == 200

StatusBadRequest == 400

StatusNotFound == 404

StatusInternalServerError == 500

(***************************************************************************)
(* Text.                                                                   *)
(***************************************************************************)
UpperCase ==
  << "A","B","C","D","E","F","G","H","I","J","K","L","M",
     "N","O","P","Q","R","S","T","U","V","W","X","Y","Z" >>

LowerCase ==
  << "a","b","c","d","e","f","g","h","i","j","k","l","m",
     "n","o","p","q","r","s","t","u","v","w","x","y","z" >>

DigitChars == << "0","1","2","3","4","5","6","7","8","9" >>

Letters == 1..Len(UpperCase)

Range(s) == { s[i] : i \in DOMAIN s }

\* The characters of the texts of this model.
Alphabet ==
  Range(UpperCase) \cup Range(LowerCase) \cup Range(DigitChars)
    \cup { "%", "_", ".", "+", "-" }

LowerOf ==
  [ c \in Alphabet |->
      IF \E i \in Letters : UpperCase[i] = c
        THEN LowerCase[CHOOSE i \in Letters : UpperCase[i] = c]
        ELSE c ]

LowerChar(c) == LowerOf[c]

\* strings.ToLower on the Go side, LOWER(...) on the SQL side (ASCII text).
ToLower(s) == [i \in 1..Len(s) |-> LowerChar(s[i])]

IsDigit(c) == c \in Range(DigitChars)

DigitOf ==
  [ c \in Range(DigitChars) |->
      (CHOOSE i \in 1..Len(DigitChars) : DigitChars[i] = c) - 1 ]

DigitVal(c) == DigitOf[c]

\* The text is acceptable input for PostgreSQL's integer type: digits only.
\* "4799.00" is not: CAST('4799.00' AS INTEGER) raises
\* "invalid input syntax for type integer".
IsIntText(s) == Len(s) > 0 /\ \A i \in 1..Len(s) : IsDigit(s[i])

RECURSIVE ParseInt(_)
ParseInt(s) ==
  IF s = << >> THEN 0
  ELSE 10 * ParseInt(SubSeq(s, 1, Len(s) - 1)) + DigitVal(s[Len(s)])

\* strconv.Atoi: an optional sign and then digits only.  (Values beyond the
\* int range, which Atoi also rejects, are not among the texts of the model.)
AtoiOK(s) ==
  IF s # << >> /\ Head(s) \in { "+", "-" } THEN IsIntText(Tail(s)) ELSE IsIntText(s)

Atoi(s) ==
  IF Head(s) = "-" THEN 0 - ParseInt(Tail(s))
  ELSE IF Head(s) = "+" THEN ParseInt(Tail(s))
  ELSE ParseInt(s)

\* Mutant: the value Atoi returns with its error, zero, is used.
parseIntQuery_ZeroOnError(valueStr, defaultValue) ==
  IF valueStr = << >> THEN defaultValue
  ELSE IF ~AtoiOK(valueStr) THEN 0
  ELSE Atoi(valueStr)

\* parseIntQuery: the value of an integer query parameter, or its default.
parseIntQuery(valueStr, defaultValue) ==
  IF valueStr = << >> THEN defaultValue
  ELSE IF ~AtoiOK(valueStr) THEN defaultValue
  ELSE Atoi(valueStr)

\* The decimal text of a natural number, as a client writes it.
RECURSIVE Itoa(_)
Itoa(n) ==
  IF n < 10 THEN << DigitChars[n + 1] >>
  ELSE Append(Itoa(n \div 10), DigitChars[(n % 10) + 1])

\* SQL LIKE: % matches any run of characters, _ matches any one character.
RECURSIVE LikeMatch(_, _)
LikeMatch(s, p) ==
  IF p = << >> THEN s = << >>
  ELSE IF Head(p) = "%"
    THEN LikeMatch(s, Tail(p)) \/ (s # << >> /\ LikeMatch(Tail(s), p))
    ELSE /\ s # << >>
         /\ (Head(p) = "_" \/ Head(p) = Head(s))
         /\ LikeMatch(Tail(s), Tail(p))

\* The order of text in ORDER BY is that of the database's collation, which
\* the program does not choose.  "C" compares the character codes, so that
\* every upper-case letter comes before every lower-case one; a locale
\* compares as a dictionary does, without regard to case, and puts the
\* lower-case letter first only among texts that are otherwise equal.
\* (Texts of letters and digits.)
AsciiOrder ==
  << "%", "+", "-", "." >> \o DigitChars \o UpperCase \o << "_" >> \o LowerCase

CodeOf ==
  [ c \in Alphabet |-> CHOOSE i \in 1..Len(AsciiOrder) : AsciiOrder[i] = c ]

RECURSIVE CodeLess(_, _)
CodeLess(a, b) ==
  IF b = << >> THEN FALSE
  ELSE IF a = << >> THEN TRUE
  ELSE IF Head(a) = Head(b) THEN CodeLess(Tail(a), Tail(b))
  ELSE CodeOf[Head(a)] < CodeOf[Head(b)]

Collations == { "C", "locale" }

TextLess(collation, a, b) ==
  IF collation = "C" THEN CodeLess(a, b)
  ELSE IF ToLower(a) # ToLower(b) THEN CodeLess(ToLower(a), ToLower(b))
  ELSE CodeLess(b, a)

\* The texts of S in ascending order.
RECURSIVE SortText(_, _)
SortText(S, collation) ==
  IF S = { } THEN << >>
  ELSE LET first == CHOOSE x \in S : \A y \in S \ { x } : TextLess(collation, x, y)
       IN  << first >> \o SortText(S \ { first }, collation)

(***************************************************************************)
(* Text values used by the stored rows and by the requests.                *)
(***************************************************************************)
Empty == << >>

t_all == << "a", "l", "l" >>

t_ALL == << "A", "L", "L" >>

t_new == << "n", "e", "w" >>

t_used == << "u", "s", "e", "d" >>

t_NEW == << "N", "E", "W" >>

t_Used == << "U", "s", "e", "d" >>

t_USED == << "U", "S", "E", "D" >>

t_Demo == << "D", "e", "m", "o" >>

t_Skoda == << "S", "k", "o", "d", "a" >>

t_SKODA == << "S", "K", "O", "D", "A" >>

t_Seat == << "S", "e", "a", "t" >>

t_Fabia == << "F", "a", "b", "i", "a" >>

t_Octavia == << "O", "c", "t", "a", "v", "i", "a" >>

t_Leon == << "L", "e", "o", "n" >>

t_Fab == << "F", "a", "b" >>

t_f_b == << "f", "_", "b" >>

t_percent == << "%" >>

t_Petrol == << "P", "e", "t", "r", "o", "l" >>

t_petrol == << "p", "e", "t", "r", "o", "l" >>

t_PETROL == << "P", "E", "T", "R", "O", "L" >>

t_Diesel == << "D", "i", "e", "s", "e", "l" >>

t_Manual == << "M", "a", "n", "u", "a", "l" >>

t_manual == << "m", "a", "n", "u", "a", "l" >>

t_MANUAL == << "M", "A", "N", "U", "A", "L" >>

t_Automatic == << "A", "u", "t", "o", "m", "a", "t", "i", "c" >>

t_Hatchback == << "H", "a", "t", "c", "h", "b", "a", "c", "k" >>

t_hatchback == << "h", "a", "t", "c", "h", "b", "a", "c", "k" >>

t_HATCHBACK == << "H", "A", "T", "C", "H", "B", "A", "C", "K" >>

t_Estate == << "E", "s", "t", "a", "t", "e" >>

t_0 == << "0" >>

t_5000 == << "5", "0", "0", "0" >>

t_10000 == << "1", "0", "0", "0", "0" >>

t_4799_00 == << "4", "7", "9", "9", ".", "0", "0" >>

t_7500_00 == << "7", "5", "0", "0", ".", "0", "0" >>

t_2015 == << "2", "0", "1", "5" >>

t_2018 == << "2", "0", "1", "8" >>

t_2019 == << "2", "0", "1", "9" >>

t_AB12 == << "A", "B", "1", "2" >>

t_ab12 == << "a", "b", "1", "2" >>

t_CD34 == << "C", "D", "3", "4" >>

t_minus1 == << "-", "1" >>

t_plus2 == << "+", "2" >>

t_abc == << "a", "b", "c" >>

t_1_5 == << "1", ".", "5" >>

t_ZZ99 == << "Z", "Z", "9", "9" >>

(***************************************************************************)
(* The vehicles table.  A row carries the columns the queries read; id is  *)
(* the primary key, vehicle_id the external source id (no unique index).   *)
(***************************************************************************)
Vehicle(vid, cls, mk, mdl, fuel, trans, body, price, year, vrm) ==
  [ vehicle_id |-> vid, advert_classification |-> cls, make |-> mk,
    model |-> mdl, fuel_type |-> fuel, transmission |-> trans,
    body_type |-> body, price |-> price, year |-> year, vrm |-> vrm ]

\* Listings a store may hold (without the primary key).
Listings ==
  { Vehicle(2, t_Used, t_Skoda, t_Fabia, t_Petrol, t_Manual, t_Hatchback,
            t_4799_00, t_2015, t_AB12),
    Vehicle(1, t_NEW, t_SKODA, t_Octavia, t_Diesel, t_manual, t_Estate,
            t_7500_00, t_2018, t_ab12),
    Vehicle(3, t_Demo, t_Seat, t_Leon, t_petrol, t_Automatic, t_hatchback,
            t_5000, t_2019, t_CD34) }

\* The table after the rows s[1], ..., s[n] were inserted in this order
\* (autoIncrement primary key).
Rows(s) == { [id |-> i] @@ s[i] : i \in 1..Len(s) }

Stores == { Rows(s) : s \in UNION { [1..n -> Listings] : n \in 0..MaxRecords } }

Ids(rows) == { r.id : r \in rows }

(***************************************************************************)
(* models.VehicleFilters                                                   *)
(***************************************************************************)
VehicleFilters(page, perPage) ==
  [ Page |-> page, ResultsPerPage |-> perPage,
    AdvertClassification |-> Empty, Make |-> Empty, Model |-> Empty,
    FuelType |-> Empty, Transmission |-> Empty, BodyType |-> Empty,
    MinPrice |-> Empty, MaxPrice |-> Empty, MinYear |-> Empty,
    MaxYear |-> Empty ]

FilterFields ==
  { "AdvertClassification", "Make", "Model", "FuelType", "Transmission",
    "BodyType", "MinPrice", "MaxPrice", "MinYear", "MaxYear" }

(***************************************************************************)
(* The store's query language, as far as the repository uses it.           *)
(*   lower_eq    LOWER(col) = arg                                          *)
(*   lower_like  LOWER(col) LIKE arg                                       *)
(*   cast_ge     CAST(col AS INTEGER) >= arg                               *)
(*   cast_le     CAST(col AS INTEGER) <= arg                               *)
(***************************************************************************)
Where(col, op, arg) == << [col |-> col, op |-> op, arg |-> arg] >>

CastOps == { "cast_ge", "cast_le" }

\* One condition on one row: "true", "false", or "error" when the cast of
\* the stored text fails.
EvalCond(row, c) ==
  CASE c.op = "lower_eq" ->
         IF ToLower(row[c.col]) = c.arg THEN "true" ELSE "false"
    [] c.op = "lower_like" ->
         IF LikeMatch(ToLower(row[c.col]), c.arg) THEN "true" ELSE "false"
    [] c.op = "cast_ge" ->
         IF ~IsIntText(row[c.col]) THEN "error"
         ELSE IF ParseInt(row[c.col]) >= ParseInt(c.arg) THEN "true" ELSE "false"
    [] c.op = "cast_le" ->
         IF ~IsIntText(row[c.col]) THEN "error"
         ELSE IF ParseInt(row[c.col]) <= ParseInt(c.arg) THEN "true" ELSE "false"

\* A text parameter bound where an integer is expected must be integer text.
BindError(q) ==
  \E i \in 1..Len(q) : q[i].op \in CastOps /\ ~IsIntText(q[i].arg)

Conds(row, q) == { EvalCond(row, q[i]) : i \in 1..Len(q) }

\* The conditions are ANDed.  The store evaluates them in an order of its
\* choice and stops at the first false one: a row with a failing cast and no
\* false condition always aborts the statement, a row with a failing cast
\* and a false condition may or may not.
MustFail(rows, q) ==
  \/ BindError(q)
  \/ \E r \in rows : "error" \in Conds(r, q) /\ "false" \notin Conds(r, q)

MayFail(rows, q) ==
  \/ BindError(q)
  \/ \E r \in rows : "error" \in Conds(r, q)

Matching(rows, q) == { r \in rows : Conds(r, q) \subseteq { "true" } }

\* Every enumeration of the rows in ascending order of column key; rows with
\* equal keys come in an order the store chooses anew for each statement.
\* (Only the first n rows of each enumeration are built.)
RECURSIVE OrderByFirst(_, _, _)
OrderByFirst(rows, key, n) ==
  IF rows = { } \/ n = 0 THEN { << >> }
  ELSE LET least == { r \in rows : \A x \in rows : r[key] <= x[key] }
       IN  UNION { { << r >> \o s : s \in OrderByFirst(rows \ { r }, key, n - 1) } :
                     r \in least }

OrderBy(rows, key) == OrderByFirst(rows, key, Cardinality(rows))

Min(a, b) == IF a < b THEN a ELSE b

\* LIMIT limit OFFSET offset
LimitOffset(s, limit, offset) == SubSeq(s, offset + 1, Min(offset + limit, Len(s)))

\* Errors of a statement: "fault" is a failure of the store itself (lost
\* connection, timeout), "sql" an error raised by the statement.
Errors(rows, q) ==
  { "fault" } \cup (IF MayFail(rows, q) THEN { "sql" } ELSE { })

\* SELECT count(*) FROM vehicles WHERE q
CountOutcomes(rows, q) ==
  { [err |-> e, n |-> 0] : e \in Errors(rows, q) }
    \cup (IF MustFail(rows, q) THEN { }
          ELSE { [err |-> "none", n |-> Cardinality(Matching(rows, q))] })

\* SELECT * FROM vehicles WHERE q ORDER BY key LIMIT limit OFFSET offset
FindOutcomes(rows, q, key, limit, offset) ==
  { [err |-> e, rows |-> << >>] : e \in Errors(rows, q) }
    \cup (IF MustFail(rows, q) THEN { }
          ELSE { [err |-> "none", rows |-> LimitOffset(s, limit, offset)] :
                   s \in OrderByFirst(Matching(rows, q), key, offset + limit) })

\* Mutant: the values come in the order of the rows, not sorted.
PluckOutcomes_Unordered(rows, q, col) ==
  { [err |-> e, values |-> << >>] : e \in Errors(rows, q) }
    \cup (IF MustFail(rows, q) THEN { }
          ELSE { [err |-> "none",
                  values |-> [ i \in 1..Len(s) |-> s[i][col] ]] :
                   s \in OrderBy(Matching(rows, q), "id") })

\* SELECT DISTINCT col FROM vehicles WHERE q ORDER BY col
PluckOutcomes(rows, q, col) ==
  { [err |-> e, values |-> << >>] : e \in Errors(rows, q) }
    \cup (IF MustFail(rows, q) THEN { }
          ELSE { [err |-> "none",
                  values |-> SortText({ r[col] : r \in Matching(rows, q) }, c)] :
                   c \in Collations })

(***************************************************************************)
(* VehicleRepository.GetVehicles: the conditions built from the filters.   *)
(***************************************************************************)
\* Mutant: only the lower-case "all" stands for no classification.
ClassificationSet_AsTyped(f) ==
  f.AdvertClassification # Empty /\ f.AdvertClassification # t_all

ClassificationSet(f) ==
  f.AdvertClassification # Empty /\ ToLower(f.AdvertClassification) # t_all

BoundSet(v) == v # Empty /\ v # t_0

\* One condition per filter field that is set.
ClassificationCond(f) ==
  IF ClassificationSet(f)
    THEN Where("advert_classification", "lower_eq", ToLower(f.AdvertClassification))
    ELSE << >>

\* Mutant: the make is compared as typed.
MakeCond_AsTyped(f) ==
  IF f.Make # Empty THEN Where("make", "lower_eq", f.Make) ELSE << >>

MakeCond(f) ==
  IF f.Make # Empty THEN Where("make", "lower_eq", ToLower(f.Make)) ELSE << >>

ModelCond(f) ==
  IF f.Model # Empty
    THEN Where("model", "lower_like", <<"%">> \o ToLower(f.Model) \o <<"%">>)
    ELSE << >>

FuelTypeCond(f) ==
  IF f.FuelType # Empty
    THEN Where("fuel_type", "lower_eq", ToLower(f.FuelType)) ELSE << >>

TransmissionCond(f) ==
  IF f.Transmission # Empty
    THEN Where("transmission", "lower_eq", ToLower(f.Transmission)) ELSE << >>

BodyTypeCond(f) ==
  IF f.BodyType # Empty
    THEN Where("body_type", "lower_eq", ToLower(f.BodyType)) ELSE << >>

MinPriceCond(f) ==
  IF BoundSet(f.MinPrice) THEN Where("price", "cast_ge", f.MinPrice) ELSE << >>

MaxPriceCond(f) ==
  IF BoundSet(f.MaxPrice) THEN Where("price", "cast_le", f.MaxPrice) ELSE << >>

MinYearCond(f) ==
  IF BoundSet(f.MinYear) THEN Where("year", "cast_ge", f.MinYear) ELSE << >>

MaxYearCond(f) ==
  IF BoundSet(f.MaxYear) THEN Where("year", "cast_le", f.MaxYear) ELSE << >>

BuildQuery(f) ==
  ClassificationCond(f) \o MakeCond(f) \o ModelCond(f) \o FuelTypeCond(f)
    \o TransmissionCond(f) \o BodyTypeCond(f) \o MinPriceCond(f)
    \o MaxPriceCond(f) \o MinYearCond(f) \o MaxYearCond(f)

\* Mutant: the page is ordered by the primary key.
OrderColumn_PrimaryKey == "id"

\* Order("vehicle_id ASC")
OrderColumn == "vehicle_id"

\* Defaults for pagination, applied after the count.
PaginationDefaults(f) ==
  [ f EXCEPT !.Page = IF f.Page < 1 THEN DefaultPage ELSE f.Page,
             !.ResultsPerPage = IF f.ResultsPerPage < 1
                                  THEN DefaultResultsPerPage
                                  ELSE f.ResultsPerPage ]

Offset(f) == (f.Page - 1) * f.ResultsPerPage

\* Mutant: no extra page for the remainder.
LastPage_Floor(n, perPage) == n \div perPage

LastPage(n, perPage) ==
  IF n % perPage > 0 THEN (n \div perPage) + 1 ELSE n \div perPage

NewQuery == Where("advert_classification", "lower_eq", t_new)

UsedQuery == Where("advert_classification", "lower_eq", t_used)

\* models.ResponseMetadata
ResponseMetadata(f, n, all, new, used) ==
  [ CurrentPage |-> f.Page, LastPage |-> LastPage(n, f.ResultsPerPage),
    PerPage |-> f.ResultsPerPage, Total |-> n, AllTotal |-> all,
    TotalNewVehicles |-> new, TotalUsedVehicles |-> used, OfferVehicles |-> 0 ]

(***************************************************************************)
(* What a repository method returns and what a handler answers.  A nil     *)
(* metadata pointer is the empty sequence, a nil error the string "".      *)
(***************************************************************************)
Return(vs, meta, err) == [ vehicles |-> vs, metadata |-> meta, err |-> err ]

Response(status, data, meta, error) ==
  [ status |-> status, data |-> data, meta |-> meta, error |-> error ]

NoReturn == Return(<< >>, << >>, "")

NoResponse == Response(0, << >>, << >>, "")

NotFoundMessage == "vehicle not found"

(***************************************************************************)
(* Requests.                                                              *)
(***************************************************************************)
FieldValues(k) ==
  CASE k = "AdvertClassification" -> { t_ALL, t_new, t_USED }
    [] k = "Make" -> { t_SKODA }
    [] k = "Model" -> { t_Fab, t_f_b, t_percent }
    [] k = "FuelType" -> { t_PETROL }
    [] k = "Transmission" -> { t_MANUAL }
    [] k = "BodyType" -> { t_HATCHBACK }
    [] k = "MinPrice" -> { t_0, t_5000 }
    [] k = "MaxPrice" -> { t_0, t_10000 }
    [] k = "MinYear" -> { t_0, t_2015 }
    [] k = "MaxYear" -> { t_0, t_2018 }

\* The requests of F with one more field set.
With(F, fields) ==
  UNION { { [f EXCEPT ![k] = v] : v \in FieldValues(k) } : <<f, k>> \in F \X fields }

PageValues == 0..MaxPage

PerPageValues == (0..MaxPerPage) \cup { MaxResultsPerPage, MaxResultsPerPage + 1 }

\* Requests without a filter, for every page and page size.
Unfiltered == { VehicleFilters(p, n) : p \in PageValues, n \in PerPageValues }

\* Requests with one filter field set (first and second page), and with two:
\* make or min_price together with any other field.
Filtered ==
  LET first == { VehicleFilters(1, MaxPerPage) }
      both  == first \cup { VehicleFilters(2, 1) }
      lead  == { [f EXCEPT !.Make = t_SKODA] : f \in first }
                 \cup { [f EXCEPT !.MinPrice = t_5000] : f \in first }
  IN  With(both, FilterFields) \cup With(lead, FilterFields)

ListRequests == Unfiltered \cup Filtered

\* The page and results_per_page query values as the client sent them; an
\* absent parameter reads as the empty text (c.Query).
Query(page, perPage) == [ page |-> page, results_per_page |-> perPage ]

NoQuery == Query(Empty, Empty)

\* Values of page or results_per_page that are absent or no integer.
NonIntegerTexts == { Empty, t_abc, t_1_5 }

\* List requests as they arrive: the integer parameters as text.
ListQueries ==
  { [ q |-> Query(Itoa(f.Page), Itoa(f.ResultsPerPage)), f |-> f ] :
      f \in ListRequests }
    \cup { [ q |-> Query(p, n), f |-> VehicleFilters(0, 0) ] :
             <<p, n>> \in
               ((NonIntegerTexts \cup { t_minus1, t_plus2 })
                   \X (NonIntegerTexts \cup { Itoa(1) }))
               \cup ({ Itoa(1) } \X (NonIntegerTexts \cup { t_minus1 })) }

Request(op, f, key) == [ op |-> op, f |-> f, key |-> key, query |-> NoQuery ]

NoRequest == Request("none", VehicleFilters(0, 0), Empty)

(***************************************************************************)
(* Single-record statements.                                               *)
(***************************************************************************)
RecordNotFound == "record not found"

\* ... WHERE q ORDER BY id LIMIT 1 (gorm's First)
FirstOutcomes(rows, q) ==
  { [err |-> e, row |-> << >>] : e \in Errors(rows, q) }
    \cup (IF MustFail(rows, q) THEN { }
          ELSE LET m == Matching(rows, q)
               IN  IF m = { } THEN { [err |-> RecordNotFound, row |-> << >>] }
                   ELSE { [err |-> "none", row |-> << r >>] :
                            r \in { x \in m : \A y \in m : x.id <= y.id } })

\* First(&vehicle, id): the primary key equals id.
ByPrimaryKey(rows, id) == { r \in rows : r.id = id }

IdParams == { << DigitChars[i + 1] >> : i \in 0..(MaxRecords + 1) } \cup { t_AB12 }

VrmParams == { t_AB12, t_ab12, t_ZZ99 }

(***************************************************************************)
(* Start of the program: main and SeedDatabase.                            *)
(***************************************************************************)
\* Records SeedDatabase inserts with one statement, in the two versions of
\* the seeder: batches of 100, or one record at a time.
batchSize == 100

BatchOf(version) == IF version = "batch" THEN batchSize ELSE 1

\* The instances that are started against the one store.
Instances == { 1, 2 }

\* A record of the seed file: a listing and, if the file gives one, its
\* primary key (0 when it gives none).
FixtureRecord(id, listing) == [ id |-> id, listing |-> listing ]

NoFile == << "no file" >>

\* Seed files: none, an empty one, small ones without and with primary
\* keys, and one of more records than a batch holds.
SmallFixture(withIds) ==
  [ k \in 1..FixtureLen |->
      FixtureRecord(IF withIds THEN 10 + k ELSE 0,
                    Vehicle(50 - k, t_Used, t_Skoda, t_Fabia, t_Petrol, t_Manual,
                            t_Hatchback, t_5000, t_2015, t_AB12)) ]

LargeFixture ==
  [ k \in 1..(batchSize + Overhang) |->
      FixtureRecord(0, Vehicle(500 - k, t_new, Empty, Empty, Empty, Empty,
                               Empty, t_0, t_0, Empty)) ]

\* The builds and their seed files.
Deployments ==
  ({ "batch", "single" }
     \X { NoFile, << >>, SmallFixture(FALSE), SmallFixture(TRUE) })
    \cup { << "batch", LargeFixture >> }

MaxId(rows) ==
  IF rows = { } THEN 0 ELSE CHOOSE n \in Ids(rows) : \A m \in Ids(rows) : m <= n

\* Mutant: the inserted rows are numbered anew, vehicle_id included.
NewRows_Renumbered(rows, batch) ==
  LET last == MaxId(rows)
  IN  { [ [id |-> last + k] @@ batch[k].listing EXCEPT !.vehicle_id = last + k ] :
          k \in 1..Len(batch) }

\* The rows that INSERT makes of a batch: a record without a primary key
\* gets the next value of the key's sequence.  (Sequence values used up by
\* failed inserts are not modelled.)
NewRows(rows, batch) ==
  LET last == MaxId(rows)
  IN  { [id |-> IF batch[k].id = 0 THEN last + k ELSE batch[k].id]
          @@ batch[k].listing : k \in 1..Len(batch) }

\* db.Create(&batch): one INSERT statement, all rows or none.
CreateOutcomes(rows, batch) ==
  LET new == NewRows(rows, batch)
  IN  { [err |-> "fault", rows |-> rows] }
        \cup (IF \/ Ids(new) \cap Ids(rows) # { }
                 \/ Cardinality(Ids(new)) # Len(batch)
                THEN { [err |-> "sql", rows |-> rows] }
                ELSE { [err |-> "none", rows |-> rows \cup new] })

\* An instance: where it stands (pc), the locals count and i of
\* SeedDatabase, what SeedDatabase returned (seedErr, "" for nil) and why the
\* process ended (exit).  inserted and insertFailed are history: the records
\* this run inserted, and whether an insert of it failed.  runs, partial and
\* before are history over the restarts of the process: the number of its
\* starts, whether an earlier run of it ended in the middle of the seed file,
\* and how many earlier runs of it inserted records.
Instance(at, count, i, seedErr, exit, inserted, insertFailed) ==
  [ pc |-> at, count |-> count, i |-> i, seedErr |-> seedErr, exit |-> exit,
    inserted |-> inserted, insertFailed |-> insertFailed,
    runs |-> 1, partial |-> FALSE, before |-> 0 ]

Started == Instance("connect", 0, 0, "", "", 0, FALSE)

ServingInstance == Instance("serve", 0, 0, "", "", 0, FALSE)

(***************************************************************************)
(* The array columns: StringArray and MediaURLArray, kept as JSON text.    *)
(* encoding/json is modelled on texts of characters: Marshal writes the    *)
(* text, Unmarshal reads it back with a parser of its own.                 *)
(***************************************************************************)
DQ == "\""

BS == "\\"

LF == "\n"

\* Characters Marshal writes as \u00XX (HTML characters), with their code.
HexOf ==
  [ c \in { "<", ">", "&" } |->
      CASE c = "<" -> << "0", "0", "3", "c" >>
        [] c = ">" -> << "0", "0", "3", "e" >>
        [] c = "&" -> << "0", "0", "2", "6" >> ]

\* Stands for every character this model has no name for.
OtherChar == "?"

EscapeChar(c) ==
  CASE c = DQ -> << BS, DQ >>
    [] c = BS -> << BS, BS >>
    [] c = LF -> << BS, "n" >>
    [] c \in DOMAIN HexOf -> << BS, "u" >> \o HexOf[c]
    [] OTHER -> << c >>

RECURSIVE Escaped(_)
Escaped(t) ==
  IF t = << >> THEN << >> ELSE EscapeChar(Head(t)) \o Escaped(Tail(t))

Quote(t) == << DQ >> \o Escaped(t) \o << DQ >>

\* A slice: nil, or a sequence of elements.
SliceOf(isNil, elems) == [ nil |-> isNil, elems |-> elems ]

NilSlice == SliceOf(TRUE, << >>)

MediaURL(large, medium, thumb) ==
  [ Large |-> large, Medium |-> medium, Thumb |-> thumb ]

ZeroMediaURL == MediaURL(<< >>, << >>, << >>)

k_large == << "l", "a", "r", "g", "e" >>

k_medium == << "m", "e", "d", "i", "u", "m" >>

k_thumb == << "t", "h", "u", "m", "b" >>

MarshalElement(kind, e) ==
  IF kind = "StringArray" THEN Quote(e)
  ELSE << "{" >> \o Quote(k_large) \o << ":" >> \o Quote(e.Large)
         \o << "," >> \o Quote(k_medium) \o << ":" >> \o Quote(e.Medium)
         \o << "," >> \o Quote(k_thumb) \o << ":" >> \o Quote(e.Thumb)
         \o << "}" >>

RECURSIVE MarshalElements(_, _)
MarshalElements(kind, es) ==
  IF es = << >> THEN << >>
  ELSE IF Len(es) = 1 THEN MarshalElement(kind, es[1])
  ELSE MarshalElement(kind, es[1]) \o << "," >> \o MarshalElements(kind, Tail(es))

NullWord == << "n", "u", "l", "l" >>

\* json.Marshal of a slice: null for a nil one.
Marshal(kind, x) ==
  IF x.nil THEN NullWord
  ELSE << "[" >> \o MarshalElements(kind, x.elems) \o << "]" >>

\* The parser.  A step gives the value read and the position after it.
Failed == [ ok |-> FALSE, null |-> FALSE, val |-> << >>, next |-> 0 ]

Parsed(v, n) == [ ok |-> TRUE, null |-> FALSE, val |-> v, next |-> n ]

ParsedNull(zero, n) == [ ok |-> TRUE, null |-> TRUE, val |-> zero, next |-> n ]

Space == { " ", LF }

RECURSIVE SkipSpace(_, _)
SkipSpace(s, i) ==
  IF i <= Len(s) /\ s[i] \in Space THEN SkipSpace(s, i + 1) ELSE i

HexChars ==
  Range(DigitChars) \cup { "a", "b", "c", "d", "e", "f" }
    \cup { "A", "B", "C", "D", "E", "F" }

CharOfHex(h) ==
  IF \E c \in DOMAIN HexOf : HexOf[c] = ToLower(h)
    THEN CHOOSE c \in DOMAIN HexOf : HexOf[c] = ToLower(h)
    ELSE OtherChar

IsWord(s, i, word) ==
  i + Len(word) - 1 <= Len(s) /\ SubSeq(s, i, i + Len(word) - 1) = word

\* The characters of a string literal from position i, after the opening
\* quote, up to the closing one.
RECURSIVE ScanString(_, _, _)
ScanString(s, i, acc) ==
  IF i > Len(s) THEN Failed
  ELSE IF s[i] = DQ THEN Parsed(acc, i + 1)
  ELSE IF s[i] = LF THEN Failed
  ELSE IF s[i] # BS THEN ScanString(s, i + 1, Append(acc, s[i]))
  ELSE IF i + 1 > Len(s) THEN Failed
  ELSE LET e == s[i + 1]
       IN  IF e \in { DQ, BS, "/" } THEN ScanString(s, i + 2, Append(acc, e))
           ELSE IF e = "n" THEN ScanString(s, i + 2, Append(acc, LF))
           ELSE IF e \in { "b", "f", "r", "t" }
             THEN ScanString(s, i + 2, Append(acc, OtherChar))
           ELSE IF e = "u"
             THEN IF i + 5 <= Len(s) /\ \A k \in 2..5 : s[i + k] \in HexChars
                    THEN ScanString(s, i + 6,
                                    Append(acc, CharOfHex(SubSeq(s, i + 2, i + 5))))
                    ELSE Failed
           ELSE Failed

\* A value for a string: a string literal or null.  (A value of another
\* JSON type is a type error of Unmarshal.)
StringOrNull(s, i) ==
  IF i > Len(s) THEN Failed
  ELSE IF s[i] = DQ THEN ScanString(s, i + 1, << >>)
  ELSE IF IsWord(s, i, NullWord) THEN ParsedNull(<< >>, i + Len(NullWord))
  ELSE Failed

FoldKey(k) ==
  [ i \in 1..Len(k) |-> IF k[i] \in Alphabet THEN LowerOf[k[i]] ELSE k[i] ]

\* The struct after the member key: v was read.  Keys match the json tags,
\* ignoring case; other keys are skipped, and null leaves a field as it is.
SetField(u, key, v) ==
  IF v.null THEN u
  ELSE IF FoldKey(key) = k_large THEN [ u EXCEPT !.Large = v.val ]
  ELSE IF FoldKey(key) = k_medium THEN [ u EXCEPT !.Medium = v.val ]
  ELSE IF FoldKey(key) = k_thumb THEN [ u EXCEPT !.Thumb = v.val ]
  ELSE u

\* The members of an object from the key at position i, one step of the
\* parser after the other: the key, the colon, the value, and a comma or
\* the closing brace.  (Member values are strings or null in this model.)
RECURSIVE Members(_, _, _)
AfterValue(s, u, j) ==
  IF j > Len(s) THEN Failed
  ELSE IF s[j] = "," THEN Members(s, SkipSpace(s, j + 1), u)
  ELSE IF s[j] = "}" THEN Parsed(u, j + 1)
  ELSE Failed

MemberValue(s, u, key, v) ==
  IF ~ v.ok THEN Failed
  ELSE AfterValue(s, SetField(u, key.val, v), SkipSpace(s, v.next))

AfterKey(s, u, key, c) ==
  IF c > Len(s) \/ s[c] # ":" THEN Failed
  ELSE MemberValue(s, u, key, StringOrNull(s, SkipSpace(s, c + 1)))

Member(s, u, key) ==
  IF ~ key.ok THEN Failed ELSE AfterKey(s, u, key, SkipSpace(s, key.next))

Members(s, i, u) ==
  IF i > Len(s) \/ s[i] # DQ THEN Failed
  ELSE Member(s, u, ScanString(s, i + 1, << >>))

ObjectOrNull(s, i) ==
  IF i > Len(s) THEN Failed
  ELSE IF IsWord(s, i, NullWord) THEN ParsedNull(ZeroMediaURL, i + Len(NullWord))
  ELSE IF s[i] # "{" THEN Failed
  ELSE LET j == SkipSpace(s, i + 1)
       IN  IF j <= Len(s) /\ s[j] = "}" THEN Parsed(ZeroMediaURL, j + 1)
           ELSE Members(s, j, ZeroMediaURL)

Element(kind, s, i) ==
  IF kind = "StringArray" THEN StringOrNull(s, i) ELSE ObjectOrNull(s, i)

\* The elements of an array from the element at position i.
RECURSIVE Elements(_, _, _, _)
AfterElement(kind, s, acc, j) ==
  IF j > Len(s) THEN Failed
  ELSE IF s[j] = "," THEN Elements(kind, s, SkipSpace(s, j + 1), acc)
  ELSE IF s[j] = "]" THEN Parsed(acc, j + 1)
  ELSE Failed

ElementRead(kind, s, acc, e) ==
  IF ~ e.ok THEN Failed
  ELSE AfterElement(kind, s, Append(acc, e.val), SkipSpace(s, e.next))

Elements(kind, s, i, acc) == ElementRead(kind, s, acc, Element(kind, s, i))

Array(kind, s, i) ==
  LET j == SkipSpace(s, i + 1)
  IN  IF j <= Len(s) /\ s[j] = "]" THEN Parsed(<< >>, j + 1)
      ELSE Elements(kind, s, j, << >>)

\* json.Unmarshal into a nil slice of the kind: the slice read, or an error.
Unmarshal(kind, s) ==
  LET i == SkipSpace(s, 1)
      syntax == [ err |-> "invalid JSON", arr |-> NilSlice ]
  IN  IF i > Len(s) THEN syntax
      ELSE IF IsWord(s, i, NullWord)
        THEN IF SkipSpace(s, i + Len(NullWord)) > Len(s)
               THEN [ err |-> "", arr |-> NilSlice ]
               ELSE syntax
      ELSE IF s[i] # "[" THEN syntax
      ELSE LET a == Array(kind, s, i)
           IN  IF a.ok /\ SkipSpace(s, a.next) > Len(s)
                 THEN [ err |-> "", arr |-> SliceOf(FALSE, a.val) ]
                 ELSE syntax

\* A driver value: NULL, a string, bytes, or a number.
DriverValue(type, text) == [ type |-> type, text |-> text ]

Null == DriverValue("nil", << >>)

EmptyArrayText == << "[", "]" >>

\* Mutant: Value without the test for an empty collection.
StringArrayValue_MarshalOnly(s) ==
  DriverValue("bytes", Marshal("StringArray", s))

\* StringArray.Value
StringArrayValue(s) ==
  IF Len(s.elems) = 0 THEN DriverValue("string", EmptyArrayText)
  ELSE DriverValue("bytes", Marshal("StringArray", s))

\* MediaURLArray.Value
MediaURLArrayValue(m) ==
  IF Len(m.elems) = 0 THEN DriverValue("string", EmptyArrayText)
  ELSE DriverValue("bytes", Marshal("MediaURLArray", m))

\* StringArray.Scan into s: the error and the receiver afterwards.
StringArrayScan(s, src) ==
  IF src.type = "nil" THEN [ err |-> "", arr |-> SliceOf(FALSE, << >>) ]
  ELSE IF src.type \notin { "string", "bytes" }
    THEN [ err |-> "incompatible type for StringArray", arr |-> s ]
  ELSE LET u == Unmarshal("StringArray", src.text)
       IN  IF u.err # "" THEN [ err |-> u.err, arr |-> s ] ELSE u

\* MediaURLArray.Scan into m
MediaURLArrayScan(m, src) ==
  IF src.type = "nil" THEN [ err |-> "", arr |-> SliceOf(FALSE, << >>) ]
  ELSE IF src.type \notin { "string", "bytes" }
    THEN [ err |-> "incompatible type for MediaURLArray", arr |-> m ]
  ELSE LET u == Unmarshal("MediaURLArray", src.text)
       IN  IF u.err # "" THEN [ err |-> u.err, arr |-> m ] ELSE u

ArrayKinds == { "StringArray", "MediaURLArray" }

Value(kind, x) ==
  IF kind = "StringArray" THEN StringArrayValue(x) ELSE MediaURLArrayValue(x)

Scan(kind, x, src) ==
  IF kind = "StringArray" THEN StringArrayScan(x, src)
  ELSE MediaURLArrayScan(x, src)

\* Element values of the collections.
ArrayTexts ==
  { Empty, << "a", "b" >>, << "a", DQ >>, << BS, "n" >>, << "<", "&", ">" >>,
    << "]", ",", "[", "}" >>, << LF, " " >> }

MediaURLs ==
  { ZeroMediaURL,
    MediaURL(<< "a", "b" >>, << "a", DQ >>, Empty),
    MediaURL(<< "}", ",", DQ, ":" >>, << BS, "n" >>, << "<", "&", ">" >>) }

SeqsUpTo(S, n) == UNION { [1..k -> S] : k \in 0..n }

Collections(kind) ==
  { NilSlice }
    \cup { SliceOf(FALSE, es) :
             es \in SeqsUpTo(IF kind = "StringArray" THEN ArrayTexts
                             ELSE MediaURLs, MaxElems) }

\* Column values not written by Value: NULL, the JSON null, an array with
\* spaces, escapes in other spellings, members in another case and order,
\* text that is no JSON, and a value of another type.
ForeignValues ==
  { Null,
    DriverValue("string", NullWord),
    DriverValue("bytes", << " ", "[", " ", "]", LF >>),
    DriverValue("string",
                << "[", DQ, BS, "u", "0", "0", "3", "C", BS, "/", DQ, ",",
                   "n", "u", "l", "l", "]" >>),
    DriverValue("bytes",
                << "[", "{", DQ, "T", "h", "u", "m", "b", DQ, ":", DQ, "a", DQ,
                   ",", DQ, "x", DQ, ":", "n", "u", "l", "l", "}", ",",
                   "n", "u", "l", "l", "]" >>),
    DriverValue("string", << "[", DQ, "a" >>),
    DriverValue("int64", << "7" >>) }

\* One use of a column: the collection x, the value written for it, and the
\* collection read back.
Codec(kind, at, x, value, own) ==
  [ kind |-> kind, at |-> at, x |-> x, value |-> value, own |-> own,
    out |-> NilSlice, err |-> "" ]

NoCodec == Codec("none", "none", NilSlice, Null, FALSE)

(***************************************************************************)
(* The serverless entry point: the package-level handle db, opened under   *)
(* a sync.Once by the first Handler invocation that reaches getDB.         *)
(***************************************************************************)
\* Invocations of Handler that one function instance runs concurrently.
MaxCalls == 2

Invocations == 1..MaxCalls

\* The handle before getDB has assigned it.
NilDB == "nil"

t_dsn == << "d", "s", "n" >>

\* What gorm.Open returns.  Beside an error the library returns the handle
\* it has built: without a pool when the dialector failed ("nopool"), with
\* a pool that holds no connection when the ping failed ("unpinged"); a
\* nil handle stands for a library that returns none.
OpenOutcomes ==
  { [ db |-> "open", err |-> FALSE ],
    [ db |-> "nopool", err |-> TRUE ],
    [ db |-> "unpinged", err |-> TRUE ],
    [ db |-> NilDB, err |-> TRUE ] }

\* Mutant: the function under once.Do leaves db nil when gorm.Open fails.
Opening_NilOnError(url) ==
  IF url = Empty THEN { [ db |-> NilDB, err |-> FALSE, tried |-> FALSE ] }
  ELSE { [ db |-> IF o.err THEN NilDB ELSE o.db, err |-> o.err,
           tried |-> TRUE ] : o \in OpenOutcomes }

\* The function under once.Do: no attempt without POSTGRES_URL; else
\* db, err = gorm.Open(...) assigns db whatever err is.
Opening(url) ==
  IF url = Empty THEN { [ db |-> NilDB, err |-> FALSE, tried |-> FALSE ] }
  ELSE { [ db |-> o.db, err |-> o.err, tried |-> TRUE ] : o \in OpenOutcomes }

\* History of the connection: calls of gorm.Open, whether the last one
\* failed, and dials of a pool that gorm.Open left without a connection.
Opened(attempts, err, dials) ==
  [ attempts |-> attempts, err |-> err, dials |-> dials ]

NotOpened == Opened(0, FALSE, 0)

\* One invocation of Handler: where it stands, its request, the handle
\* getDB returned to it, and the status it answered.
Call(at, r, databaseInstance, status) ==
  [ at |-> at, r |-> r, databaseInstance |-> databaseInstance,
    status |-> status ]

NoCall == Call("idle", NoRequest, NilDB, 0)

\* The requests sent to the function: the list with and without a page the
\* handler rejects, a vehicle by id, and a path the router does not know.
Invoked ==
  { [ Request("list", VehicleFilters(0, 0), Empty)
        EXCEPT !.query = Query(Empty, Empty) ],
    [ Request("list", VehicleFilters(0, 0), Empty)
        EXCEPT !.query = Query(t_minus1, Empty) ],
    Request("byid", NoRequest.f, Itoa(3)),
    Request("byid", NoRequest.f, t_abc),
    Request("health", NoRequest.f, Empty) }

(***************************************************************************)
(* State.                                                                  *)
(*   store      the vehicles table                                         *)
(*   pc         where the request stands: "idle" when there is none,       *)
(*              "done" when it is answered, else the statement that        *)
(*              GetVehicles issues next                                    *)
(*   caller     "http" (through the handler) or "direct" (the repository   *)
(*              called by other code)                                      *)
(*   req        the request as received                                    *)
(*   filters, total, vehicles, allTotal, totalNew, totalUsed               *)
(*              locals of VehicleRepository.GetVehicles                    *)
(*   ret        what the repository returned                               *)
(*   resp       what the handler answered                                  *)
(*   failed     history: the statements of this request that failed        *)
(*   issued     history: the statements this request sent to the store     *)
(*   walk       history: the pages 1, 2, ... fetched in a row without a    *)
(*              filter and with one page size                              *)
(*   proc       the instances of the program: where each stands in main   *)
(*              and in SeedDatabase                                        *)
(*   fixture    the seed file the instances are deployed with              *)
(*   seeder     the SeedDatabase the instances are built with              *)
(*   parked     the request variables of a second request in flight        *)
(*   codec      one use of an array column: collection, value, read back   *)
(*   db         the serverless entry point's package-level handle          *)
(*   once       its sync.Once: new, running or done                        *)
(*   calls      the invocations of the serverless Handler                  *)
(*   dsn        the environment's POSTGRES_URL                             *)
(*   opened     history: calls of gorm.Open and dials of the pool          *)
(***************************************************************************)
VARIABLES store, pc, caller, req, filters, total, vehicles, allTotal,
          totalNew, totalUsed, ret, resp, failed, issued, walk,
          proc, fixture, seeder, parked, codec,
          db, once, calls, dsn, opened

vars == << store, pc, caller, req, filters, total, vehicles, allTotal,
           totalNew, totalUsed, ret, resp, failed, issued, walk,
           proc, fixture, seeder, parked, codec,
           db, once, calls, dsn, opened >>

serverless == << db, once, calls, dsn, opened >>

\* The serverless function instance before its first invocation, deployed
\* with the connection string url.
ColdStart(url) ==
  /\ db = NilDB
  /\ once = "new"
  /\ calls = [ i \in Invocations |-> NoCall ]
  /\ dsn = url
  /\ opened = NotOpened

boot == << proc, fixture, seeder >>

\* The server runs every request in a goroutine of its own.  The request
\* variables are those of the goroutine that runs; parked holds the ones of
\* a second goroutine while it waits for the processor.
Goroutine ==
  [ pc |-> pc, caller |-> caller, req |-> req, filters |-> filters,
    total |-> total, vehicles |-> vehicles, allTotal |-> allTotal,
    totalNew |-> totalNew, totalUsed |-> totalUsed, ret |-> ret,
    resp |-> resp, failed |-> failed, issued |-> issued ]

IdleGoroutine ==
  [ pc |-> "idle", caller |-> "http", req |-> NoRequest,
    filters |-> NoRequest.f, total |-> 0, vehicles |-> << >>, allTotal |-> 0,
    totalNew |-> 0, totalUsed |-> 0, ret |-> NoReturn, resp |-> NoResponse,
    failed |-> { }, issued |-> { } ]

\* An instance has started its HTTP server.
Serving == \E p \in Instances : proc[p].pc = "serve"

locals == << filters, total, vehicles, allTotal, totalNew, totalUsed >>

NoWalk == [ perPage |-> 0, pages |-> << >> ]

Init ==
  /\ store \in Stores
  /\ pc = "idle"
  /\ caller = "http"
  /\ req = NoRequest
  /\ filters = NoRequest.f
  /\ total = 0
  /\ vehicles = << >>
  /\ allTotal = 0
  /\ totalNew = 0
  /\ totalUsed = 0
  /\ ret = NoReturn
  /\ resp = NoResponse
  /\ failed = { }
  /\ issued = { }
  /\ walk = NoWalk
  /\ proc = [ p \in Instances |-> ServingInstance ]
  /\ fixture = NoFile
  /\ seeder = "batch"
  /\ parked = IdleGoroutine
  /\ ColdStart(Empty)
  /\ codec = NoCodec

\* The walk goes on with page f.Page, or starts again.
KeepWalk(f) ==
  IF /\ BuildQuery(f) = << >>
     /\ f.Page = Len(walk.pages) + 1
     /\ f.Page > 1
     /\ f.ResultsPerPage = walk.perPage
    THEN walk ELSE NoWalk

\* A request starts: the locals are fresh.
Begin(who, r) ==
  /\ caller' = who
  /\ walk' = KeepWalk(r.f)
  /\ req' = r
  /\ filters' = r.f
  /\ total' = 0
  /\ vehicles' = << >>
  /\ allTotal' = 0
  /\ totalNew' = 0
  /\ totalUsed' = 0

\* The handler's answer to what the repository returned for a list request.
ListResponse(r) ==
  IF r.err # ""
    THEN Response(StatusInternalServerError, << >>, << >>, "failed to fetch vehicles")
    ELSE Response(StatusOK, r.vehicles, r.metadata, "")

\* The repository returns r; the handler, if it called, answers.
Finish(r) ==
  /\ ret' = r
  /\ resp' = IF caller = "http" THEN ListResponse(r) ELSE NoResponse
  /\ pc' = "done"

Fail(stage, err) == failed \cup { << stage, err >> }

\* The walk after a list request ended with r.
NextWalk(r) ==
  IF r.err = "" /\ BuildQuery(filters) = << >> /\ req.f.Page >= 1
       /\ req.f.ResultsPerPage \in 1..MaxResultsPerPage
    THEN LET page == [ i \in 1..Len(r.vehicles) |-> r.vehicles[i].id ]
         IN  IF filters.Page = 1
               THEN [ perPage |-> filters.ResultsPerPage, pages |-> << page >> ]
             ELSE IF /\ filters.ResultsPerPage = walk.perPage
                     /\ filters.Page = Len(walk.pages) + 1
               THEN [ walk EXCEPT !.pages = Append(@, page) ]
             ELSE NoWalk
    ELSE NoWalk

(***************************************************************************)
(* VehicleHandler.GetVehicles                                              *)
(***************************************************************************)
\* The filters the handler builds from the query.
QueryFilters(q, f) ==
  [ f EXCEPT !.Page = parseIntQuery(q.page, DefaultPage),
             !.ResultsPerPage = parseIntQuery(q.results_per_page,
                                              DefaultResultsPerPage) ]

\* Mutant: the page size has no upper limit.
ValidationError_NoUpperLimit(f) ==
  IF f.Page < 1 THEN "page must be greater than 0"
  ELSE IF f.ResultsPerPage < 1
    THEN "results_per_page must be between 1 and 100"
  ELSE ""

\* The handler's validation of page and results_per_page: the message of
\* the rejection, "" when the request passes.
ValidationError(f) ==
  IF f.Page < 1 THEN "page must be greater than 0"
  ELSE IF f.ResultsPerPage < 1 \/ f.ResultsPerPage > MaxResultsPerPage
    THEN "results_per_page must be between 1 and 100"
  ELSE ""

GetVehicles(q, f0) ==
  LET f == QueryFilters(q, f0)
  IN  /\ pc = "idle"
      /\ Serving
      /\ Begin("http", [ Request("list", f, Empty) EXCEPT !.query = q ])
      /\ IF ValidationError(f) # ""
           THEN /\ resp' = Response(StatusBadRequest, << >>, << >>,
                                    ValidationError(f))
                /\ pc' = "done"
           ELSE /\ resp' = NoResponse
                /\ pc' = "count"
      /\ ret' = NoReturn
      /\ failed' = { }
      /\ issued' = { }
      /\ UNCHANGED << store, boot, parked, codec, serverless >>

\* VehicleRepository.GetVehicles called without the handler.
RepoGetVehicles(f) ==
  /\ pc = "idle"
  /\ Serving
  /\ Begin("direct", Request("list", f, Empty))
  /\ pc' = "count"
  /\ ret' = NoReturn
  /\ resp' = NoResponse
  /\ failed' = { }
  /\ issued' = { }
  /\ UNCHANGED << store, boot, parked, codec, serverless >>

(***************************************************************************)
(* VehicleRepository.GetVehicles, one statement at a time.                 *)
(***************************************************************************)
CountFiltered ==
  /\ pc = "count"
  /\ \E o \in CountOutcomes(store, BuildQuery(filters)) :
       IF o.err # "none"
         THEN /\ failed' = Fail("count", o.err)
              /\ Finish(Return(<< >>, << >>, "failed to count vehicles"))
              /\ walk' = NoWalk
              /\ UNCHANGED locals
         ELSE /\ total' = o.n
              /\ filters' = PaginationDefaults(filters)
              /\ pc' = "find"
              /\ UNCHANGED << vehicles, allTotal, totalNew, totalUsed, ret,
                              resp, failed, walk >>
  /\ issued' = issued \cup { "count" }
  /\ UNCHANGED << boot, parked, codec, serverless, store, caller, req >>

FindPage ==
  /\ pc = "find"
  /\ \E o \in FindOutcomes(store, BuildQuery(filters), OrderColumn,
                           filters.ResultsPerPage, Offset(filters)) :
       IF o.err # "none"
         THEN /\ failed' = Fail("find", o.err)
              /\ Finish(Return(<< >>, << >>, "failed to fetch vehicles"))
              /\ walk' = NoWalk
              /\ UNCHANGED locals
         ELSE /\ vehicles' = o.rows
              /\ pc' = "all"
              /\ UNCHANGED << filters, total, allTotal, totalNew, totalUsed,
                              ret, resp, failed, walk >>
  /\ issued' = issued \cup { "find" }
  /\ UNCHANGED << boot, parked, codec, serverless, store, caller, req >>

\* The statistics: the error of a failed count is not looked at and the
\* counter keeps its zero.
CountAll ==
  /\ pc = "all"
  /\ \E o \in CountOutcomes(store, << >>) :
       /\ allTotal' = IF o.err = "none" THEN o.n ELSE allTotal
       /\ failed' = IF o.err = "none" THEN failed ELSE Fail("all", o.err)
  /\ pc' = "new"
  /\ issued' = issued \cup { "all" }
  /\ UNCHANGED << boot, parked, codec, serverless, store, caller, req,
                  filters, total, vehicles, totalNew,
                  totalUsed, ret, resp, walk >>

CountNew ==
  /\ pc = "new"
  /\ \E o \in CountOutcomes(store, NewQuery) :
       /\ totalNew' = IF o.err = "none" THEN o.n ELSE totalNew
       /\ failed' = IF o.err = "none" THEN failed ELSE Fail("new", o.err)
  /\ pc' = "used"
  /\ issued' = issued \cup { "new" }
  /\ UNCHANGED << boot, parked, codec, serverless, store, caller, req,
                  filters, total, vehicles, allTotal,
                  totalUsed, ret, resp, walk >>

\* The last statement, the metadata and the return.
CountUsed ==
  /\ pc = "used"
  /\ \E o \in CountOutcomes(store, UsedQuery) :
       /\ totalUsed' = IF o.err = "none" THEN o.n ELSE totalUsed
       /\ failed' = IF o.err = "none" THEN failed ELSE Fail("used", o.err)
  /\ LET r == Return(vehicles,
                     << ResponseMetadata(filters, total, allTotal, totalNew,
                                         totalUsed') >>, "")
     IN  Finish(r) /\ walk' = NextWalk(r)
  /\ issued' = issued \cup { "used" }
  /\ UNCHANGED << boot, parked, codec, serverless, store, caller, req,
                  filters, total, vehicles, allTotal,
                  totalNew >>

(***************************************************************************)
(* GetVehicleByID and GetVehicleByVRM: handler and repository.             *)
(***************************************************************************)
\* Mutant: every error of First is reported as not found.
LookupError_AlwaysNotFound(o) ==
  IF o.err = "none" THEN "" ELSE NotFoundMessage

\* The repository's error for the outcome of First.
LookupError(o) ==
  IF o.err = "none" THEN ""
  ELSE IF o.err = RecordNotFound THEN NotFoundMessage
  ELSE "failed to fetch vehicle: " \o o.err

\* The handler's answer to what the repository returned for a lookup.
LookupResponse(r) ==
  IF r.err = "" THEN Response(StatusOK, r.vehicles, << >>, "")
  ELSE IF r.err = NotFoundMessage
    THEN Response(StatusNotFound, << >>, << >>, "vehicle not found")
  ELSE Response(StatusInternalServerError, << >>, << >>, "failed to fetch vehicle")

Lookup(o) ==
  /\ failed' = IF o.err \in { "none", RecordNotFound } THEN { }
               ELSE { << "first", o.err >> }
  /\ ret' = Return(o.row, << >>, LookupError(o))
  /\ resp' = LookupResponse(ret')
  /\ issued' = { "first" }

GetVehicleByID(idStr) ==
  /\ pc = "idle"
  /\ Serving
  /\ Begin("http", Request("byid", NoRequest.f, idStr))
  /\ IF ~IsIntText(idStr)
       THEN /\ resp' = Response(StatusBadRequest, << >>, << >>, "invalid vehicle ID")
            /\ ret' = NoReturn
            /\ failed' = { }
            /\ issued' = { }
       ELSE \E o \in FirstOutcomes(ByPrimaryKey(store, ParseInt(idStr)), << >>) :
              Lookup(o)
  /\ pc' = "done"
  /\ UNCHANGED << store, boot, parked, codec, serverless >>

GetVehicleByVRM(vrm) ==
  /\ pc = "idle"
  /\ Serving
  /\ Begin("http", Request("byvrm", NoRequest.f, vrm))
  /\ \E o \in FirstOutcomes(store, Where("vrm", "lower_eq", ToLower(vrm))) :
       Lookup(o)
  /\ pc' = "done"
  /\ UNCHANGED << store, boot, parked, codec, serverless >>

(***************************************************************************)
(* GetAvailableMakes, GetAvailableModels and the health check.             *)
(***************************************************************************)
\* The condition GetAvailableModels builds from its make parameter.
ModelsQuery(make) ==
  IF make # Empty THEN Where("make", "lower_eq", ToLower(make)) ELSE << >>

\* The handler's answer to what the repository returned for a list of values.
ValuesResponse(r, message) ==
  IF r.err # "" THEN Response(StatusInternalServerError, << >>, << >>, message)
  ELSE Response(StatusOK, r.vehicles, << >>, "")

\* Repository and handler for one outcome of Pluck.
Values(o, message) ==
  /\ failed' = IF o.err = "none" THEN { } ELSE { << "pluck", o.err >> }
  /\ ret' = Return(o.values, << >>, IF o.err = "none" THEN "" ELSE message)
  /\ resp' = ValuesResponse(ret', message)
  /\ issued' = { "pluck" }

GetAvailableMakes ==
  /\ pc = "idle"
  /\ Serving
  /\ Begin("http", Request("makes", NoRequest.f, Empty))
  /\ \E o \in PluckOutcomes(store, << >>, "make") : Values(o, "failed to fetch makes")
  /\ pc' = "done"
  /\ UNCHANGED << store, boot, parked, codec, serverless >>

GetAvailableModels(make) ==
  /\ pc = "idle"
  /\ Serving
  /\ Begin("http", Request("models", NoRequest.f, make))
  /\ \E o \in PluckOutcomes(store, ModelsQuery(make), "model") :
       Values(o, "failed to fetch models")
  /\ pc' = "done"
  /\ UNCHANGED << store, boot, parked, codec, serverless >>

\* GET /health
Health ==
  /\ pc = "idle"
  /\ Serving
  /\ Begin("http", Request("health", NoRequest.f, Empty))
  /\ resp' = Response(StatusOK, << >>, << >>, "")
  /\ ret' = NoReturn
  /\ failed' = { }
  /\ issued' = { }
  /\ pc' = "done"
  /\ UNCHANGED << store, boot, parked, codec, serverless >>

MakeParams == { Empty, t_SKODA, t_Seat, t_ZZ99 }

\* The handler returns: the request and its locals are gone.
Done ==
  /\ pc = "done"
  /\ pc' = "idle"
  /\ caller' = "http"
  /\ req' = NoRequest
  /\ filters' = NoRequest.f
  /\ total' = 0
  /\ vehicles' = << >>
  /\ allTotal' = 0
  /\ totalNew' = 0
  /\ totalUsed' = 0
  /\ ret' = NoReturn
  /\ resp' = NoResponse
  /\ failed' = { }
  /\ issued' = { }
  /\ UNCHANGED << boot, parked, codec, serverless, store, walk >>

Next ==
  \/ \E r \in ListQueries : GetVehicles(r.q, r.f)
  \/ \E f \in Unfiltered : RepoGetVehicles(f)
  \/ CountFiltered
  \/ FindPage
  \/ CountAll
  \/ CountNew
  \/ CountUsed
  \/ \E idStr \in IdParams : GetVehicleByID(idStr)
  \/ \E vrm \in VrmParams : GetVehicleByVRM(vrm)
  \/ GetAvailableMakes
  \/ \E make \in MakeParams : GetAvailableModels(make)
  \/ Health
  \/ Done

Spec == Init /\ [][Next]_vars

(***************************************************************************)
(* main: connect, migrate, seed, serve.  Every instance runs it against    *)
(* the one store; the instances share nothing else.                        *)
(***************************************************************************)
request == << pc, caller, req, filters, total, vehicles, allTotal, totalNew,
              totalUsed, ret, resp, failed, issued, walk >>

\* Stores the instances may find when they start.
StartStores ==
  { { }, Rows(<< Vehicle(3, t_Demo, t_Seat, t_Leon, t_petrol, t_Automatic,
                         t_hatchback, t_5000, t_2019, t_CD34) >>) }

StartInit ==
  /\ store \in StartStores
  /\ \E d \in Deployments : seeder = d[1] /\ fixture = d[2]
  /\ proc = [ p \in Instances |-> Started ]
  /\ pc = "idle"
  /\ caller = "http"
  /\ req = NoRequest
  /\ filters = NoRequest.f
  /\ total = 0
  /\ vehicles = << >>
  /\ allTotal = 0
  /\ totalNew = 0
  /\ totalUsed = 0
  /\ ret = NoReturn
  /\ resp = NoResponse
  /\ failed = { }
  /\ issued = { }
  /\ walk = NoWalk
  /\ parked = IdleGoroutine
  /\ ColdStart(Empty)
  /\ codec = NoCodec

\* database.InitDB; main ends the process when it fails.
InitDB(p) ==
  /\ proc[p].pc = "connect"
  /\ \E ok \in BOOLEAN :
       proc' = [ proc EXCEPT ![p] =
                   IF ok THEN [ @ EXCEPT !.pc = "migrate" ]
                   ELSE [ @ EXCEPT !.pc = "exit", !.exit = "connect" ] ]
  /\ UNCHANGED << store, fixture, seeder, request, parked,
               codec, serverless >>

\* database.RunMigrations; main ends the process when it fails.
RunMigrations(p) ==
  /\ proc[p].pc = "migrate"
  /\ \E ok \in BOOLEAN :
       proc' = [ proc EXCEPT ![p] =
                   IF ok THEN [ @ EXCEPT !.pc = "seed" ]
                   ELSE [ @ EXCEPT !.pc = "exit", !.exit = "migrate" ] ]
  /\ UNCHANGED << store, fixture, seeder, request, parked,
               codec, serverless >>

\* Mutant: main ends the process when the seeder fails.
AfterSeed_Fatal(err) == IF err # "" THEN "exit" ELSE "run"

\* main after SeedDatabase returned err: a failure is logged, then the
\* routes are registered and the server is started.
AfterSeed(err) == "run"

\* SeedDatabase returns err to main.
SeedReturn(me, err) == [ me EXCEPT !.seedErr = err, !.pc = AfterSeed(err) ]

\* Mutant: the seeder never skips.
SkipSeed_Never(count) == FALSE

\* The store already has data.
SkipSeed(count) == count > 0

SeedCount(p) ==
  /\ proc[p].pc = "seed"
  /\ \E o \in CountOutcomes(store, << >>) :
       proc' = [ proc EXCEPT ![p] =
                   IF o.err # "none"
                     THEN SeedReturn(@, "failed to count vehicles")
                   ELSE IF SkipSeed(o.n)
                     THEN SeedReturn([ @ EXCEPT !.count = o.n ], "")
                   ELSE [ @ EXCEPT !.count = o.n, !.pc = "load" ] ]
  /\ UNCHANGED << store, fixture, seeder, request, parked,
               codec, serverless >>

\* loadVehicleData, and the first test of the insert loop.
SeedLoad(p) ==
  /\ proc[p].pc = "load"
  /\ proc' = [ proc EXCEPT ![p] =
                 IF fixture = NoFile
                   THEN SeedReturn(@, "failed to load vehicle data")
                 ELSE IF Len(fixture) = 0 THEN SeedReturn(@, "")
                 ELSE [ @ EXCEPT !.pc = "insert", !.i = 0 ] ]
  /\ UNCHANGED << store, fixture, seeder, request, parked,
               codec, serverless >>

\* Mutant: a failed insert is passed over and the loop goes on.
AfterCreate_GoesOn(me, err, step, n, len) ==
  LET next == [ me EXCEPT !.i = @ + step,
                          !.inserted = IF err = "none" THEN @ + n ELSE @,
                          !.insertFailed = @ \/ err # "none" ]
  IN  IF next.i >= len THEN SeedReturn(next, "") ELSE next

\* The instance after db.Create returned err for the n records from index
\* i on: the error ends SeedDatabase, else the loop goes on or ends.
AfterCreate(me, err, step, n, len) ==
  IF err # "none"
    THEN SeedReturn([ me EXCEPT !.insertFailed = TRUE ], "failed to insert")
  ELSE LET next == [ me EXCEPT !.i = @ + step, !.inserted = @ + n ]
       IN  IF next.i >= len THEN SeedReturn(next, "") ELSE next

\* One turn of the insert loop.
SeedInsert(p) ==
  /\ proc[p].pc = "insert"
  /\ LET i     == proc[p].i
         end   == Min(i + BatchOf(seeder), Len(fixture))
         batch == SubSeq(fixture, i + 1, end)
     IN  \E o \in CreateOutcomes(store, batch) :
           /\ store' = o.rows
           /\ proc' = [ proc EXCEPT ![p] =
                          AfterCreate(@, o.err, BatchOf(seeder), Len(batch),
                                      Len(fixture)) ]
  /\ UNCHANGED << fixture, seeder, request, parked,
               codec, serverless >>

\* The rest of main: repository, handlers, routes, r.Run.
Run(p) ==
  /\ proc[p].pc = "run"
  /\ \E ok \in BOOLEAN :
       proc' = [ proc EXCEPT ![p] =
                   IF ok THEN [ @ EXCEPT !.pc = "serve" ]
                   ELSE [ @ EXCEPT !.pc = "exit", !.exit = "listen" ] ]
  /\ UNCHANGED << store, fixture, seeder, request, parked,
               codec, serverless >>

\* The list requests sent to a starting deployment.
StartQueries ==
  { [ q |-> Query(Empty, Itoa(MaxPerPage)), f |-> VehicleFilters(0, 0) ] }

StartNext ==
  \/ \E p \in Instances : InitDB(p)
  \/ \E p \in Instances : RunMigrations(p)
  \/ \E p \in Instances : SeedCount(p)
  \/ \E p \in Instances : SeedLoad(p)
  \/ \E p \in Instances : SeedInsert(p)
  \/ \E p \in Instances : Run(p)
  \/ \E r \in StartQueries : GetVehicles(r.q, r.f)
  \/ CountFiltered
  \/ FindPage
  \/ CountAll
  \/ CountNew
  \/ CountUsed
  \/ Done

StartSpec == StartInit /\ [][StartNext]_vars

\* main is sequential code of a running process: once SeedDatabase has
\* returned, the process goes on to start the server.
StartFair == StartSpec /\ \A p \in Instances : WF_vars(Run(p))

(***************************************************************************)
(* Restarts.  A process that ended, or was ended at any point, is started  *)
(* again and runs main from its first line against the same store.         *)
(***************************************************************************)
\* The run of an instance stopped after inserting a part of the seed file:
\* an insert failed, or the process ended inside the insert loop.
AbortedSeed(me) ==
  /\ me.inserted > 0
  /\ me.insertFailed \/ me.pc = "insert"

Restart(p) ==
  /\ proc[p].pc # "connect"
  /\ proc[p].runs < MaxRuns
  /\ proc' = [ proc EXCEPT ![p] =
                 [ Started EXCEPT
                     !.runs = proc[p].runs + 1,
                     !.partial = proc[p].partial \/ AbortedSeed(proc[p]),
                     !.before = proc[p].before
                                  + (IF proc[p].inserted > 0 THEN 1 ELSE 0) ] ]
  /\ UNCHANGED << store, fixture, seeder, request, parked, codec, serverless >>

RestartNext ==
  \/ \E p \in Instances : InitDB(p)
  \/ \E p \in Instances : RunMigrations(p)
  \/ \E p \in Instances : SeedCount(p)
  \/ \E p \in Instances : SeedLoad(p)
  \/ \E p \in Instances : SeedInsert(p)
  \/ \E p \in Instances : Run(p)
  \/ \E p \in Instances : Restart(p)

RestartSpec == StartInit /\ [][RestartNext]_vars

(***************************************************************************)
(* Two requests in flight.  The HTTP server gives every request its own    *)
(* goroutine, and the scheduler may pass from one to the other between any *)
(* two statements.  The handlers keep what they work on in locals; they    *)
(* share the repository, which holds the connection pool and nothing else. *)
(***************************************************************************)
\* Mutant: the filters are kept in one place shared by all requests.
Switch_SharedFilters ==
  /\ Serving
  /\ Goroutine # parked
  /\ parked' = Goroutine
  /\ pc' = parked.pc
  /\ caller' = parked.caller
  /\ req' = parked.req
  /\ total' = parked.total
  /\ vehicles' = parked.vehicles
  /\ allTotal' = parked.allTotal
  /\ totalNew' = parked.totalNew
  /\ totalUsed' = parked.totalUsed
  /\ ret' = parked.ret
  /\ resp' = parked.resp
  /\ failed' = parked.failed
  /\ issued' = parked.issued
  /\ UNCHANGED << store, boot, walk, filters, codec, serverless >>

\* The scheduler passes from the running goroutine to the waiting one.
Switch ==
  /\ Serving
  /\ Goroutine # parked
  /\ parked' = Goroutine
  /\ pc' = parked.pc
  /\ caller' = parked.caller
  /\ req' = parked.req
  /\ filters' = parked.filters
  /\ total' = parked.total
  /\ vehicles' = parked.vehicles
  /\ allTotal' = parked.allTotal
  /\ totalNew' = parked.totalNew
  /\ totalUsed' = parked.totalUsed
  /\ ret' = parked.ret
  /\ resp' = parked.resp
  /\ failed' = parked.failed
  /\ issued' = parked.issued
  /\ UNCHANGED << store, boot, walk, codec, serverless >>

\* List requests of the two clients: no parameters but the page size, a
\* make filter, and a page the handler rejects.
ServeQueries ==
  StartQueries
    \cup { [ q |-> Query(Itoa(1), Itoa(1)),
             f |-> [ VehicleFilters(0, 0) EXCEPT !.Make = t_SKODA ] ],
           [ q |-> Query(t_minus1, Empty), f |-> VehicleFilters(0, 0) ] }

ServeNext ==
  \/ \E r \in ServeQueries : GetVehicles(r.q, r.f)
  \/ CountFiltered
  \/ FindPage
  \/ CountAll
  \/ CountNew
  \/ CountUsed
  \/ \E id \in IdParams : GetVehicleByID(id)
  \/ \E vrm \in VrmParams : GetVehicleByVRM(vrm)
  \/ GetAvailableMakes
  \/ \E make \in MakeParams : GetAvailableModels(make)
  \/ Health
  \/ Done
  \/ Switch

ServeSpec == Init /\ [][ServeNext]_vars

(***************************************************************************)
(* The array columns in use: a collection is written with Value and read   *)
(* back with Scan into a new record; or Scan reads a value that something  *)
(* else wrote.                                                             *)
(***************************************************************************)
ArrayInit ==
  /\ \E k \in ArrayKinds :
       \/ \E x \in Collections(k) : codec = Codec(k, "value", x, Null, TRUE)
       \/ \E v \in ForeignValues : codec = Codec(k, "written", NilSlice, v, FALSE)
  /\ store = { }
  /\ pc = "idle"
  /\ caller = "http"
  /\ req = NoRequest
  /\ filters = NoRequest.f
  /\ total = 0
  /\ vehicles = << >>
  /\ allTotal = 0
  /\ totalNew = 0
  /\ totalUsed = 0
  /\ ret = NoReturn
  /\ resp = NoResponse
  /\ failed = { }
  /\ issued = { }
  /\ walk = NoWalk
  /\ proc = [ p \in Instances |-> ServingInstance ]
  /\ fixture = NoFile
  /\ seeder = "batch"
  /\ parked = IdleGoroutine
  /\ ColdStart(Empty)

ArrayValue ==
  /\ codec.at = "value"
  /\ codec' = [ codec EXCEPT !.value = Value(codec.kind, codec.x),
                              !.at = "written" ]
  /\ UNCHANGED << store, request, boot, parked, serverless >>

ArrayScan ==
  /\ codec.at = "written"
  /\ LET r == Scan(codec.kind, codec.out, codec.value)
     IN  codec' = [ codec EXCEPT !.out = r.arr, !.err = r.err,
                                 !.at = "scanned" ]
  /\ UNCHANGED << store, request, boot, parked, serverless >>

ArrayNext ==
  \/ ArrayValue
  \/ ArrayScan

ArraySpec == ArrayInit /\ [][ArrayNext]_vars

(***************************************************************************)
(* The serverless function instance: Handler invocations run concurrently  *)
(* from a cold start.                                                      *)
(***************************************************************************)
\* The router of the serverless Handler knows two routes.
Routed(r) == r.op \in { "list", "byid" }

\* The route's handler rejects the request before it uses the handle.
Rejected(r) ==
  IF r.op = "list"
    THEN ValidationError(QueryFilters(r.query, r.f)) # ""
    ELSE ~IsIntText(r.key)

\* A statement on the handle h runs: the pool exists and reaches the store.
Runs(h, reach) == h \in { "open", "unpinged" } /\ reach

\* The statuses router.ServeHTTP can answer with the handle h.
RouterStatuses(rows, h, r, reach) ==
  IF ~Routed(r) THEN { StatusNotFound }
  ELSE IF Rejected(r) THEN { StatusBadRequest }
  ELSE IF ~Runs(h, reach) THEN { StatusInternalServerError }
  ELSE IF r.op = "list" THEN { StatusOK }
  ELSE { LookupResponse(Return(o.row, << >>, LookupError(o))).status :
           o \in FirstOutcomes(ByPrimaryKey(rows, ParseInt(r.key)), << >>) }

LambdaInit ==
  /\ store \in StartStores
  /\ pc = "idle"
  /\ caller = "http"
  /\ req = NoRequest
  /\ filters = NoRequest.f
  /\ total = 0
  /\ vehicles = << >>
  /\ allTotal = 0
  /\ totalNew = 0
  /\ totalUsed = 0
  /\ ret = NoReturn
  /\ resp = NoResponse
  /\ failed = { }
  /\ issued = { }
  /\ walk = NoWalk
  /\ proc = [ p \in Instances |-> ServingInstance ]
  /\ fixture = NoFile
  /\ seeder = "batch"
  /\ parked = IdleGoroutine
  /\ codec = NoCodec
  /\ \E url \in { Empty, t_dsn } : ColdStart(url)

lambdaFrame == << store, request, boot, parked, codec >>

\* The platform invokes Handler with the request r; the invocation builds
\* its router and calls getDB.
Handler(i, r) ==
  /\ calls[i].at = "idle"
  /\ calls' = [ calls EXCEPT ![i] = Call("getDB", r, NilDB, 0) ]
  /\ UNCHANGED << db, once, dsn, opened, lambdaFrame >>

\* once.Do for the first caller: it runs the function.
OnceDo(i) ==
  /\ calls[i].at = "getDB"
  /\ once = "new"
  /\ once' = "running"
  /\ calls' = [ calls EXCEPT ![i].at = "once" ]
  /\ UNCHANGED << db, dsn, opened, lambdaFrame >>

\* The function under once.Do, and the end of once.Do.
OnceFunc(i) ==
  /\ calls[i].at = "once"
  /\ \E o \in Opening(dsn) :
       /\ db' = o.db
       /\ opened' = IF o.tried
                      THEN [ opened EXCEPT !.attempts = @ + 1, !.err = o.err ]
                      ELSE opened
  /\ once' = "done"
  /\ calls' = [ calls EXCEPT ![i].at = "getDB" ]
  /\ UNCHANGED << dsn, lambdaFrame >>

\* once.Do returns to a caller when the function has run (callers wait
\* while it runs); getDB returns db, and Handler answers 500 to nil.
getDB(i) ==
  /\ calls[i].at = "getDB"
  /\ once = "done"
  /\ calls' = [ calls EXCEPT ![i].databaseInstance = db,
                  ![i].at = IF db = NilDB THEN "answered" ELSE "router",
                  ![i].status = IF db = NilDB THEN StatusInternalServerError
                                ELSE 0 ]
  /\ UNCHANGED << db, once, dsn, opened, lambdaFrame >>

\* router.ServeHTTP with the handlers built on databaseInstance.
ServeHTTP(i) ==
  /\ calls[i].at = "router"
  /\ LET c == calls[i]
     IN  \E reach \in BOOLEAN :
           /\ \E s \in RouterStatuses(store, c.databaseInstance, c.r, reach) :
                calls' = [ calls EXCEPT ![i].at = "answered", ![i].status = s ]
           /\ opened' = IF /\ Routed(c.r)
                           /\ ~Rejected(c.r)
                           /\ c.databaseInstance = "unpinged"
                          THEN [ opened EXCEPT !.dials = @ + 1 ]
                          ELSE opened
  /\ UNCHANGED << db, once, dsn, lambdaFrame >>

LambdaNext ==
  \/ \E i \in Invocations, r \in Invoked : Handler(i, r)
  \/ \E i \in Invocations :
       \/ OnceDo(i)
       \/ OnceFunc(i)
       \/ getDB(i)
       \/ ServeHTTP(i)

LambdaSpec == LambdaInit /\ [][LambdaNext]_vars

(***************************************************************************)
(* Properties.                                                             *)
(***************************************************************************)
\* A list request was answered by the repository without an error.
ListOK ==
  pc = "done" /\ req.op = "list" /\ ret.err = "" /\ ret.metadata # << >>

Meta == ret.metadata[1]

\* No statement of the request failed for a reason outside the statement.
NoFault == \A x \in failed : x[2] # "fault"

RECURSIVE Concat(_)
Concat(ss) == IF ss = << >> THEN << >> ELSE Head(ss) \o Concat(Tail(ss))

Occurrences(s, x) == Cardinality({ i \in DOMAIN s : s[i] = x })

\* The pages 1..lastPage of the store have all been fetched, one after the
\* other, with one page size and no filter.
WalkComplete ==
  /\ pc = "done"
  /\ walk.pages # << >>
  /\ Len(walk.pages) = LastPage(Cardinality(store), walk.perPage)

\* C1: without a filter and on a store that does not change, the pages
\* 1..lastPage of any page size in [1,100], put one after the other, hold
\* every stored record exactly once, and no page holds more records than the
\* page size; also when stored records share a vehicle_id.
C1_PagesHoldEveryRecordOnce ==
  WalkComplete =>
    /\ \A id \in Ids(store) : Occurrences(Concat(walk.pages), id) = 1
    /\ \A p \in DOMAIN walk.pages : Len(walk.pages[p]) <= walk.perPage

\* The same statement for stores in which no two records share a vehicle_id.
UniqueVehicleIds ==
  \A r1, r2 \in store : r1.vehicle_id = r2.vehicle_id => r1 = r2

C1_PagesHoldEveryRecordOnce_UniqueKeys ==
  (WalkComplete /\ UniqueVehicleIds) =>
    /\ \A id \in Ids(store) : Occurrences(Concat(walk.pages), id) = 1
    /\ \A p \in DOMAIN walk.pages : Len(walk.pages[p]) <= walk.perPage

RECURSIVE SortedKeys(_, _)
\* The values of column key over the rows, in ascending order.
SortedKeys(rows, key) ==
  IF rows = { } THEN << >>
  ELSE LET r == CHOOSE x \in rows : \A y \in rows : x[key] <= y[key]
       IN  << r[key] >> \o SortedKeys(rows \ { r }, key)

Column(s, key) == [ i \in DOMAIN s |-> s[i][key] ]

Slice(s, page, perPage) ==
  SubSeq(s, (page - 1) * perPage + 1, Min(page * perPage, Len(s)))

\* C2: the records returned are the elements at the positions
\* [(page-1)*resultsPerPage, (page-1)*resultsPerPage + resultsPerPage) of the
\* records matching the active conditions in ascending order of vehicle_id
\* (not of id), and the repository does not cap resultsPerPage.
C2_PageIsSliceByVehicleId ==
  (ListOK /\ req.f.Page >= 1 /\ req.f.ResultsPerPage >= 1) =>
    LET m == Matching(store, BuildQuery(req.f))
    IN  /\ Column(ret.vehicles, "vehicle_id")
             = Slice(SortedKeys(m, "vehicle_id"), req.f.Page, req.f.ResultsPerPage)
        /\ \A i \in DOMAIN ret.vehicles : ret.vehicles[i] \in m
        /\ \A i, j \in DOMAIN ret.vehicles :
             i # j => ret.vehicles[i] # ret.vehicles[j]
        /\ Meta.PerPage = req.f.ResultsPerPage
        /\ Meta.CurrentPage = req.f.Page

\* A page size above the handler's cap, answered with two records whose
\* order by vehicle_id is the reverse of their order by id.
C2_Witness ==
  /\ ListOK
  /\ req.f.ResultsPerPage > MaxResultsPerPage
  /\ Len(ret.vehicles) = 2
  /\ ret.vehicles[1].id > ret.vehicles[2].id
  /\ ret.vehicles[1].vehicle_id < ret.vehicles[2].vehicle_id

EqualFold(a, b) == ToLower(a) = ToLower(b)

IsNew(r) == EqualFold(r.advert_classification, t_new)

IsUsed(r) == EqualFold(r.advert_classification, t_used)

\* C3: in every successful list response all_total, total_new_vehicles and
\* total_used_vehicles are those of the whole store, whatever the filters,
\* and total_new_vehicles + total_used_vehicles <= all_total, with equality
\* exactly when every record is classified "new" or "used" in any letter case.
C3_StoreWideCounts ==
  ListOK =>
    /\ Meta.AllTotal = Cardinality(store)
    /\ Meta.TotalNewVehicles = Cardinality({ r \in store : IsNew(r) })
    /\ Meta.TotalUsedVehicles = Cardinality({ r \in store : IsUsed(r) })
    /\ Meta.TotalNewVehicles + Meta.TotalUsedVehicles <= Meta.AllTotal
    /\ (Meta.TotalNewVehicles + Meta.TotalUsedVehicles = Meta.AllTotal)
         <=> (\A r \in store : IsNew(r) \/ IsUsed(r))

\* The same statement for requests none of whose statements failed.
C3_StoreWideCounts_NoFailure ==
  (ListOK /\ failed = { }) =>
    /\ Meta.AllTotal = Cardinality(store)
    /\ Meta.TotalNewVehicles = Cardinality({ r \in store : IsNew(r) })
    /\ Meta.TotalUsedVehicles = Cardinality({ r \in store : IsUsed(r) })
    /\ Meta.TotalNewVehicles + Meta.TotalUsedVehicles <= Meta.AllTotal
    /\ (Meta.TotalNewVehicles + Meta.TotalUsedVehicles = Meta.AllTotal)
         <=> (\A r \in store : IsNew(r) \/ IsUsed(r))

\* C4: when any statement of a list request failed (the filtered count, the
\* page, or one of the three statistics), the repository returns an error
\* with no records and no metadata and the handler answers 500.
C4_FailureGivesErrorOnly ==
  (pc = "done" /\ req.op = "list" /\ failed # { }) =>
    /\ ret.err # ""
    /\ ret.vehicles = << >>
    /\ ret.metadata = << >>
    /\ caller = "http" =>
         resp.status = StatusInternalServerError /\ resp.meta = << >>

\* The same statement for the two statements whose error is looked at.
C4_FailureGivesErrorOnly_CountAndPage ==
  (pc = "done" /\ req.op = "list"
     /\ \E x \in failed : x[1] \in { "count", "find" }) =>
    /\ ret.err # ""
    /\ ret.vehicles = << >>
    /\ ret.metadata = << >>
    /\ caller = "http" =>
         resp.status = StatusInternalServerError /\ resp.meta = << >>

\* C5: a list request with min_price=5000 and max_price=10000 succeeds,
\* leaves out a record priced "4799.00" and includes one priced "7500.00"
\* (here: the store answers every statement it is able to answer).
C5_PriceRangeOverDecimalText ==
  (/\ pc = "done" /\ req.op = "list" /\ caller = "http"
   /\ req.f.MinPrice = t_5000 /\ req.f.MaxPrice = t_10000
   /\ BuildQuery(req.f) = MinPriceCond(req.f) \o MaxPriceCond(req.f)
   /\ req.f.Page = 1 /\ req.f.ResultsPerPage >= Cardinality(store)
   /\ NoFault) =>
    /\ resp.status = StatusOK
    /\ \A i \in DOMAIN resp.data : resp.data[i].price # t_4799_00
    /\ \A r \in store :
         r.price = t_7500_00 => \E i \in DOMAIN resp.data : resp.data[i] = r

\* The same request over a store whose prices are all integer text: the
\* records returned are those with min <= price <= max.
C5_PriceRangeOverIntegerText ==
  (/\ pc = "done" /\ req.op = "list" /\ caller = "http"
   /\ req.f.MinPrice = t_5000 /\ req.f.MaxPrice = t_10000
   /\ BuildQuery(req.f) = MinPriceCond(req.f) \o MaxPriceCond(req.f)
   /\ req.f.Page = 1 /\ req.f.ResultsPerPage >= Cardinality(store)
   /\ NoFault
   /\ \A r \in store : IsIntText(r.price)) =>
    /\ resp.status = StatusOK
    /\ { resp.data[i] : i \in DOMAIN resp.data }
         = { r \in store : 5000 <= ParseInt(r.price) /\ ParseInt(r.price) <= 10000 }

UpperOf ==
  [ c \in Alphabet |->
      IF \E i \in Letters : LowerCase[i] = c
        THEN UpperCase[CHOOSE i \in Letters : LowerCase[i] = c]
        ELSE c ]

UpperChar(c) == UpperOf[c]

ToUpper(s) == [i \in 1..Len(s) |-> UpperChar(s[i])]

\* The records and the total returned could have been returned for f.
PossibleAnswer(f) ==
  LET g == PaginationDefaults(f)
  IN  /\ [err |-> "none", n |-> Meta.Total] \in CountOutcomes(store, BuildQuery(f))
      /\ [err |-> "none", rows |-> ret.vehicles]
           \in FindOutcomes(store, BuildQuery(f), OrderColumn,
                            g.ResultsPerPage, Offset(g))

ExactFields == { "Make", "FuelType", "Transmission", "BodyType" }

ColumnOf(k) ==
  CASE k = "Make" -> "make"
    [] k = "FuelType" -> "fuel_type"
    [] k = "Transmission" -> "transmission"
    [] k = "BodyType" -> "body_type"

\* The row equals, letter case aside, every exact-match field that f sets.
SatisfiesExact(r, f) ==
  \A k \in ExactFields : f[k] # Empty => EqualFold(r[ColumnOf(k)], f[k])

OnlyExact(f) ==
  \A k \in FilterFields \ ExactFields :
    f[k] = Empty

\* C6: the active conditions are ANDed, make, fuel type, transmission and
\* body type match by equality ignoring letter case, and a request that
\* differs from this one only in the letter case of one of these four values
\* gets the same records and the same total.
C6_ExactFiltersIgnoreCase ==
  ListOK =>
    /\ \A i \in DOMAIN ret.vehicles : SatisfiesExact(ret.vehicles[i], req.f)
    /\ OnlyExact(req.f) =>
         Meta.Total = Cardinality({ r \in store : SatisfiesExact(r, req.f) })
    /\ \A k \in ExactFields :
         \A v \in { ToLower(req.f[k]), ToUpper(req.f[k]) } \ { req.f[k] } :
           PossibleAnswer([req.f EXCEPT ![k] = v])

\* make=SKODA and fuel_type=PETROL: the one record returned is stored as
\* Skoda/Petrol, and another Skoda of the store is left out for its fuel.
C6_Witness ==
  /\ ListOK
  /\ req.f.Make = t_SKODA
  /\ req.f.FuelType = t_PETROL
  /\ Len(ret.vehicles) = 1
  /\ ret.vehicles[1].make = t_Skoda
  /\ ret.vehicles[1].fuel_type = t_Petrol
  /\ \E r \in store : EqualFold(r.make, t_Skoda) /\ ~EqualFold(r.fuel_type, t_Petrol)

\* t occurs in s as a run of adjacent characters.
Contains(s, t) ==
  \E i \in 0..(Len(s) - Len(t)) : SubSeq(s, i + 1, i + Len(t)) = t

\* C7: with a model filter, a record matches exactly when the lower-cased
\* filter occurs in the record's lower-cased model, for every filter text,
\* also one with % or _ in it.
C7_ModelIsSubstringMatch ==
  (ListOK /\ req.f.Model # Empty) =>
    /\ \A i \in DOMAIN ret.vehicles :
         Contains(ToLower(ret.vehicles[i].model), ToLower(req.f.Model))
    /\ BuildQuery(req.f) = ModelCond(req.f) =>
         Meta.Total = Cardinality({ r \in store :
                        Contains(ToLower(r.model), ToLower(req.f.Model)) })

HasWildcard(t) == \E i \in DOMAIN t : t[i] \in { "%", "_" }

\* The same statement for filter texts without % and _.
C7_ModelIsSubstringMatch_NoWildcard ==
  (ListOK /\ req.f.Model # Empty /\ ~HasWildcard(req.f.Model)) =>
    /\ \A i \in DOMAIN ret.vehicles :
         Contains(ToLower(ret.vehicles[i].model), ToLower(req.f.Model))
    /\ BuildQuery(req.f) = ModelCond(req.f) =>
         Meta.Total = Cardinality({ r \in store :
                        Contains(ToLower(r.model), ToLower(req.f.Model)) })

\* The values of field k that stand for "not set".
UnsetValues(k) ==
  CASE k = "AdvertClassification" -> { Empty, t_all, t_ALL }
    [] k \in { "MinPrice", "MaxPrice", "MinYear", "MaxYear" } -> { Empty, t_0 }
    [] OTHER -> { Empty }

\* C8: a field that is not set adds no condition: with a field empty, with
\* advert_classification "all" in any letter case, or with a price or year
\* bound "0", the records and the total are those of the request without
\* that field.
C8_UnsetFieldAddsNoCondition ==
  ListOK =>
    \A k \in FilterFields :
      req.f[k] \in UnsetValues(k) =>
        \A v \in UnsetValues(k) \ { req.f[k] } :
          PossibleAnswer([req.f EXCEPT ![k] = v])

\* min_price=0 next to make=SKODA over two Skodas, one with a price that is
\* no integer text: both are counted.
C8_Witness ==
  /\ ListOK
  /\ req.f.Make = t_SKODA
  /\ req.f.MinPrice = t_0
  /\ Meta.Total = 2
  /\ \E r \in store : ~IsIntText(r.price)

\* C9: total is the number of records matching the active conditions and
\* last_page is the ceiling of total / per_page: 4 for 36 records in pages
\* of 10, 0 for no record.
C9_TotalAndLastPage ==
  /\ LastPage(36, 10) = 4
  /\ LastPage(0, 10) = 0
  /\ ListOK =>
       /\ Meta.Total = Cardinality(Matching(store, BuildQuery(req.f)))
       /\ Meta.PerPage >= 1
       /\ Meta.LastPage >= 0
       /\ Meta.LastPage * Meta.PerPage >= Meta.Total
       /\ Meta.LastPage > 0 => (Meta.LastPage - 1) * Meta.PerPage < Meta.Total

\* A filtered total that leaves a last page partly filled.
C9_Witness ==
  /\ ListOK
  /\ BuildQuery(req.f) # << >>
  /\ Meta.Total < Cardinality(store)
  /\ Meta.Total % Meta.PerPage > 0
  /\ Meta.LastPage = (Meta.Total \div Meta.PerPage) + 1

\* The records a lookup is after.
Sought ==
  IF req.op = "byid" THEN { r \in store : r.id = ParseInt(req.key) }
  ELSE { r \in store : EqualFold(r.vrm, req.key) }

\* C10: a lookup by id or by VRM (compared ignoring letter case) ends in
\* one of three ways: the record (200), not found when no row matches (404),
\* or failure when the statement failed (500); no match never gives 500 and
\* a failed statement never gives 404.
C10_LookupOutcomes ==
  (/\ pc = "done"
   /\ req.op \in { "byid", "byvrm" }
   /\ req.op = "byid" => IsIntText(req.key)) =>
    /\ resp.status \in { StatusOK, StatusNotFound, StatusInternalServerError }
    /\ resp.status = StatusInternalServerError <=> failed # { }
    /\ resp.status = StatusNotFound <=> (failed = { } /\ Sought = { })
    /\ resp.status = StatusOK <=> (failed = { } /\ Sought # { })
    /\ resp.status = StatusOK =>
         Len(resp.data) = 1 /\ resp.data[1] \in Sought
    /\ resp.status # StatusOK => resp.data = << >>

\* A VRM asked for in lower case finds the record stored in upper case.
C10_Witness ==
  /\ pc = "done"
  /\ req.op = "byvrm"
  /\ req.key = t_ab12
  /\ resp.status = StatusOK
  /\ resp.data[1].vrm = t_AB12

(***************************************************************************)
(* C11  The list handler rejects page < 1 and results_per_page outside     *)
(* 1..100 with status 400 and an error body, without calling the           *)
(* repository: no statement is sent to the store.  Every request of the    *)
(* handler that reaches the repository has page >= 1 and                   *)
(* 1 <= results_per_page <= 100.                                           *)
(***************************************************************************)
HandlerList == caller = "http" /\ req.op = "list"

OutOfRange(f) == f.Page < 1 \/ f.ResultsPerPage < 1 \/ f.ResultsPerPage > 100

Statements == { "count", "find", "all", "new", "used" }

C11_OutOfRangeRejectedBeforeRepository ==
  HandlerList =>
    /\ OutOfRange(req.f) =>
         /\ pc = "done"
         /\ resp.status = 400
         /\ resp.error # ""
         /\ resp.data = << >> /\ resp.meta = << >>
         /\ ret = NoReturn
         /\ issued = { }
    /\ (pc \in Statements \/ issued # { }) =>
         /\ req.f.Page >= 1
         /\ req.f.ResultsPerPage >= 1 /\ req.f.ResultsPerPage <= 100
         /\ filters.Page >= 1
         /\ filters.ResultsPerPage >= 1 /\ filters.ResultsPerPage <= 100

\* A request for 101 records a page against a store with records is answered
\* 400, and one for 100 a page is answered 200.
C11_Witness ==
  /\ HandlerList /\ pc = "done" /\ store # { }
  /\ \/ req.f.ResultsPerPage = 101 /\ req.f.Page = 1 /\ resp.status = 400
     \/ req.f.Page = 0 /\ req.f.ResultsPerPage = 1 /\ resp.status = 400

(***************************************************************************)
(* C12  A page or results_per_page value that is absent, empty or no       *)
(* integer is replaced by its default (page 1, results_per_page 10); the   *)
(* request goes on with the default and is never answered 400 for it.      *)
(***************************************************************************)
\* An optional sign followed by one decimal digit or more.
IntegerSyntax(s) ==
  LET d == IF s # << >> /\ s[1] \in { "+", "-" } THEN Tail(s) ELSE s
  IN  d # << >> /\ \A i \in DOMAIN d : d[i] \in Range(DigitChars)

C12_NonIntegerPagingFallsBackToDefault ==
  HandlerList =>
    /\ ~IntegerSyntax(req.query.page) =>
         /\ req.f.Page = 1
         /\ resp.error # "page must be greater than 0"
         /\ pc \in Statements => filters.Page = 1
         /\ ListOK => Meta.CurrentPage = 1
    /\ ~IntegerSyntax(req.query.results_per_page) =>
         /\ req.f.ResultsPerPage = 10
         /\ resp.error # "results_per_page must be between 1 and 100"
         /\ pc \in Statements => filters.ResultsPerPage = 10
         /\ ListOK => Meta.PerPage = 10
    /\ (~IntegerSyntax(req.query.page)
          /\ ~IntegerSyntax(req.query.results_per_page)) =>
         /\ resp.status # 400
         /\ pc = "done" => issued # { }

\* page=abc without results_per_page is answered 200 with page 1 of size 10.
C12_Witness ==
  /\ ListOK /\ HandlerList
  /\ req.query.page = t_abc /\ req.query.results_per_page = Empty
  /\ resp.status = 200
  /\ Meta.CurrentPage = 1 /\ Meta.PerPage = 10
  /\ Len(resp.data) = MaxRecords

(***************************************************************************)
(* Seeding.                                                                *)
(***************************************************************************)
\* SeedDatabase of instance p has returned.
SeedDone(p) ==
  \/ proc[p].pc \in { "run", "serve" }
  \/ proc[p].pc = "exit" /\ proc[p].exit = "listen"

\* A row without its primary key.
ListingOf(r) == [ k \in DOMAIN r \ { "id" } |-> r[k] ]

\* How often the seed file holds the listing c, and how often the store.
InFixture(c) ==
  Cardinality({ k \in DOMAIN fixture :
                  /\ fixture[k].listing.vehicle_id = c.vehicle_id
                  /\ fixture[k].listing = c })

InStore(c) ==
  Cardinality({ r \in store : r.vehicle_id = c.vehicle_id /\ ListingOf(r) = c })

FixtureListings == { fixture[k].listing : k \in DOMAIN fixture }

(***************************************************************************)
(* C13  SeedDatabase run against a store that holds a record inserts       *)
(* nothing, leaves the store as it is and returns no error; a second run   *)
(* after a first one changes nothing.                                      *)
(***************************************************************************)
C13_SeederSkipsNonEmptyStore ==
  /\ [](\A p \in Instances :
          proc[p].count > 0 =>
            /\ proc[p].inserted = 0 /\ proc[p].i = 0
            /\ ~proc[p].insertFailed
            /\ SeedDone(p)
            /\ proc[p].seedErr = "")
  /\ [][\A p \in Instances :
          (proc'[p] # proc[p] /\ proc'[p].count > 0) => store' = store]_vars

\* The first instance seeded the small file, the second found its records
\* and skipped, and the store holds the file once.
C13_Witness ==
  /\ fixture = SmallFixture(FALSE)
  /\ SeedDone(1) /\ proc[1].inserted = FixtureLen
  /\ SeedDone(2) /\ proc[2].count = FixtureLen /\ proc[2].inserted = 0
  /\ Cardinality(store) = FixtureLen

(***************************************************************************)
(* C14  A run of SeedDatabase on an empty store, no insert failing, leaves *)
(* one row per record of the seed file, for files smaller and larger than  *)
(* a batch of 100, each row with the vehicle_id of its record.             *)
(***************************************************************************)
\* Instance p seeded an empty store with success, and nobody else inserted.
SeededAlone(p) ==
  /\ fixture # NoFile
  /\ SeedDone(p) /\ proc[p].seedErr = "" /\ proc[p].count = 0
  /\ \A q \in Instances \ { p } : proc[q].inserted = 0

C14_SeedStoresEveryFixtureRecord ==
  \A p \in Instances :
    SeededAlone(p) =>
      /\ Cardinality(store) = Len(fixture)
      /\ proc[p].inserted = Len(fixture)
      /\ \A c \in FixtureListings : InStore(c) = InFixture(c)
      /\ \A k \in DOMAIN fixture :
           \E r \in store : r.vehicle_id = fixture[k].listing.vehicle_id
      /\ \A r \in store :
           \E k \in DOMAIN fixture : r.vehicle_id = fixture[k].listing.vehicle_id

\* The file of 101 records was seeded in two batches.
C14_Witness ==
  /\ fixture = LargeFixture /\ seeder = "batch"
  /\ SeededAlone(1)
  /\ Cardinality(store) = 100 + Overhang

(***************************************************************************)
(* C15  When the insert of a batch fails, SeedDatabase returns an error at *)
(* once: it inserts no later batch and reports no success, and the rows of *)
(* the batches before stay in the store.                                   *)
(***************************************************************************)
C15_FailedBatchAbortsSeed ==
  /\ [](\A p \in Instances :
          proc[p].insertFailed =>
            /\ SeedDone(p)
            /\ proc[p].seedErr # ""
            /\ proc[p].inserted < Len(fixture))
  /\ [][/\ store \subseteq store'
        /\ \A p \in Instances :
             proc[p].insertFailed =>
               /\ proc'[p].inserted = proc[p].inserted
               /\ proc'[p].i = proc[p].i
               /\ proc'[p].seedErr = proc[p].seedErr]_vars

\* The second batch of the large file failed: the first hundred rows stay.
C15_Witness ==
  /\ fixture = LargeFixture
  /\ proc[1].insertFailed /\ proc[1].inserted = 100
  /\ proc[2].inserted = 0
  /\ Cardinality(store) = 100
  /\ proc[1].pc = "serve"

(***************************************************************************)
(* C16  A failed seed does not keep the process from serving: after        *)
(* SeedDatabase returned an error the process registers its routes and     *)
(* starts the server, and list requests are answered from the rows the     *)
(* store has.  A failed connection or migration ends the process before    *)
(* it seeds or serves.                                                     *)
(***************************************************************************)
C16_SeedFailureDoesNotStopServing ==
  /\ [](\A p \in Instances :
          /\ proc[p].pc = "exit" => proc[p].exit \in { "connect", "migrate", "listen" }
          /\ proc[p].exit \in { "connect", "migrate" } =>
               /\ proc[p].pc = "exit"
               /\ proc[p].seedErr = "" /\ proc[p].count = 0
               /\ proc[p].inserted = 0 /\ ~proc[p].insertFailed
          /\ proc[p].seedErr # "" => SeedDone(p))
  /\ [](pc # "idle" => Serving)
  /\ []((pc = "done" /\ req.op = "list" /\ failed = { }) =>
          /\ resp.status = 200
          /\ resp.error = ""
          /\ \A i \in DOMAIN resp.data : resp.data[i] \in store)
  /\ [][\A p \in Instances : proc[p].pc = "exit" => proc'[p] = proc[p]]_vars
  /\ \A p \in Instances :
       (proc[p].seedErr # "") ~> (proc[p].pc = "serve" \/ proc[p].exit = "listen")

\* One instance could not connect and ended; the other failed to insert its
\* second batch, serves, and answers a list request with rows of the first.
C16_Witness ==
  /\ proc[1].pc = "serve" /\ proc[1].seedErr # "" /\ proc[1].inserted = 100
  /\ proc[2].pc = "exit" /\ proc[2].exit = "connect"
  /\ pc = "done" /\ resp.status = 200 /\ Len(resp.data) = MaxPerPage
  /\ Meta.Total = 100

(***************************************************************************)
(* C20  When several runs of SeedDatabase work on the same empty store at  *)
(* the same time, the store ends up with each record of the seed file at   *)
(* most once, whatever the order of their counts and inserts.              *)
(***************************************************************************)
C20_ConcurrentSeedsInsertOnce ==
  fixture # NoFile => \A c \in FixtureListings : InStore(c) <= InFixture(c)

\* The same for seed files that give every record its primary key: the
\* second insert of a record fails on the key.
C20_ConcurrentSeedsInsertOnce_PrimaryKeys ==
  (fixture # NoFile /\ \A k \in DOMAIN fixture : fixture[k].id # 0) =>
    \A c \in FixtureListings : InStore(c) <= InFixture(c)

(***************************************************************************)
(* C18  GetAvailableMakes returns every make value present in the store    *)
(* exactly once, in ascending alphabetical order; GetAvailableModels       *)
(* returns every distinct model value in ascending order, of the records   *)
(* whose make equals the given one ignoring letter case, and of all        *)
(* records when the make is empty.                                         *)
(***************************************************************************)
ValuesOK(op) == pc = "done" /\ req.op = op /\ resp.status = StatusOK

NoDuplicates(s) == \A i, j \in DOMAIN s : i # j => s[i] # s[j]

\* Alphabetical as in a dictionary: no text stands after one that, letter
\* case set aside, comes later in the alphabet.
Alphabetical(s) ==
  \A i \in 1..(Len(s) - 1) : ~ CodeLess(ToLower(s[i + 1]), ToLower(s[i]))

\* Ascending in the order of one of the collations a store may have.
AscendingInStoreOrder(s) ==
  \E c \in Collations : \A i \in 1..(Len(s) - 1) : TextLess(c, s[i], s[i + 1])

MakesPresent == { r.make : r \in store }

ModelsPresent(make) ==
  { r.model : r \in { x \in store :
                         make = Empty \/ ToLower(x.make) = ToLower(make) } }

C18_DistinctValuesAlphabetical ==
  /\ ValuesOK("makes") =>
       /\ Range(resp.data) = MakesPresent
       /\ NoDuplicates(resp.data)
       /\ Alphabetical(resp.data)
  /\ ValuesOK("models") =>
       /\ Range(resp.data) = ModelsPresent(req.key)
       /\ NoDuplicates(resp.data)
       /\ Alphabetical(resp.data)

\* The same with the order of the store's collation in place of the
\* alphabetical one.
C18_DistinctValuesAlphabetical_StoreOrder ==
  /\ ValuesOK("makes") =>
       /\ Range(resp.data) = MakesPresent
       /\ NoDuplicates(resp.data)
       /\ AscendingInStoreOrder(resp.data)
  /\ ValuesOK("models") =>
       /\ Range(resp.data) = ModelsPresent(req.key)
       /\ NoDuplicates(resp.data)
       /\ AscendingInStoreOrder(resp.data)

\* Models of a make given in another letter case than the stored ones, on a
\* store that holds the make in two spellings.
C18_Witness ==
  /\ ValuesOK("models")
  /\ req.key = t_SKODA
  /\ resp.data = << t_Fabia, t_Octavia >>

(***************************************************************************)
(* C17  No HTTP endpoint changes the store: whatever requests to /health,  *)
(* /vehicles, /vehicles/:id, /vehicles/vrm/:vrm, /vehicles/makes and       *)
(* /vehicles/models run, one after another or interleaved, the stored      *)
(* records stay the same; and the result of a request is one the request   *)
(* has on the store alone: a request starts with nothing left of earlier   *)
(* ones, and its answer is an answer to its own parameters.                *)
(***************************************************************************)
\* The answer of the finished request, judged by its parameters and the
\* store only.  A 500 comes from a statement that failed.
AnswerFromStore ==
  /\ resp.status = StatusInternalServerError => failed # { }
  /\ req.op = "list" =>
       /\ resp.status \in { StatusOK, StatusBadRequest, StatusInternalServerError }
       /\ resp.status = StatusBadRequest <=> ValidationError(req.f) # ""
       /\ resp.status = StatusOK =>
            resp.data = ret.vehicles /\ PossibleAnswer(req.f)
  /\ req.op \in { "byid", "byvrm" } =>
       /\ resp.status = StatusBadRequest <=>
            (req.op = "byid" /\ ~ IsIntText(req.key))
       /\ resp.status = StatusOK => resp.data[1] \in Sought
       /\ resp.status = StatusNotFound => Sought = { }
  /\ req.op = "makes" =>
       (resp.status = StatusOK => Range(resp.data) = MakesPresent)
  /\ req.op = "models" =>
       (resp.status = StatusOK => Range(resp.data) = ModelsPresent(req.key))
  /\ req.op = "health" => resp.status = StatusOK

C17_EndpointsOnlyRead ==
  /\ [][store' = store]_vars
  /\ [](pc = "idle" => Goroutine = IdleGoroutine)
  /\ [](pc = "done" => AnswerFromStore)

\* A list request is answered while a second one, with a filter, stands
\* between its count and its page statement.
C17_Witness ==
  /\ pc = "done" /\ req.op = "list" /\ resp.status = StatusOK
  /\ Len(resp.data) = MaxPerPage
  /\ parked.pc = "find" /\ parked.req.f.Make = t_SKODA /\ parked.total = 1

(***************************************************************************)
(* C19  For the array columns (StringArray, MediaURLArray): Value of an    *)
(* empty or nil collection is the JSON text [] and never a null marker;    *)
(* Scan of a database NULL yields an empty collection; and for every       *)
(* collection x, Scan(Value(x)) yields a collection with the same elements *)
(* in the same order.                                                      *)
(***************************************************************************)
C19_ArrayColumnsRoundTrip ==
  /\ (codec.own /\ codec.at # "value") =>
       /\ codec.value.type \in { "string", "bytes" }
       /\ codec.value.text # NullWord
       /\ Len(codec.x.elems) = 0 => codec.value.text = EmptyArrayText
  /\ (codec.at = "scanned" /\ codec.value = Null) =>
       codec.err = "" /\ codec.out = SliceOf(FALSE, << >>)
  /\ (codec.at = "scanned" /\ codec.own) =>
       codec.err = "" /\ codec.out.elems = codec.x.elems

\* Two image records with quotes, braces, a backslash and HTML characters in
\* their URLs went through Value and Scan.
C19_Witness ==
  /\ codec.kind = "MediaURLArray"
  /\ codec.at = "scanned" /\ codec.own
  /\ Len(codec.x.elems) = MaxElems
  /\ codec.x.elems[1].Large = << "}", ",", DQ, ":" >>
  /\ codec.x.elems[2].Medium = << "a", DQ >>
  /\ codec.out.elems = codec.x.elems

(***************************************************************************)
(* C21  Across restarts of the process, a seed that stopped after it had   *)
(* inserted at least one record is never completed: every later run of     *)
(* SeedDatabase counts more than zero records, skips and returns no error,  *)
(* so the store keeps a strict subset of the seed file for ever; and so a   *)
(* return of SeedDatabase without error does not say that the store holds   *)
(* the whole file.                                                          *)
(***************************************************************************)
\* Some run, of this start of a process or of an earlier one, stopped after
\* inserting a part of the seed file.
PartlySeeded ==
  \E q \in Instances :
    proc[q].partial \/ (proc[q].insertFailed /\ proc[q].inserted > 0)

\* The rows of the store are records of the seed file, and fewer than it has.
StrictSubset ==
  /\ Cardinality(store) < Len(fixture)
  /\ \A r \in store : \E k \in DOMAIN fixture : fixture[k].listing = ListingOf(r)

\* The runs that inserted records, over all starts of all processes.
RunsThatInserted(q) ==
  proc[q].before + (IF proc[q].inserted > 0 THEN 1 ELSE 0)

OneSeeder == RunsThatInserted(1) + RunsThatInserted(2) <= 1

\* The count of a run, made after a seed stopped part way: unless the
\* statement itself fails, it is positive, the run inserts nothing and
\* returns nil.
LaterRunSkips ==
  \A p \in Instances :
    (/\ PartlySeeded
     /\ proc[p].pc = "seed"
     /\ proc'[p].runs = proc[p].runs
     /\ proc'[p] # proc[p]) =>
      \/ proc'[p].seedErr = "failed to count vehicles"
      \/ /\ proc'[p].count > 0
         /\ proc'[p].pc = "run"
         /\ proc'[p].seedErr = ""
         /\ proc'[p].inserted = 0
         /\ store' = store

C21_AbortedSeedNeverCompleted ==
  PartlySeeded => StrictSubset

\* The same when no second run inserted records, with what the later runs do.
C21_AbortedSeedNeverCompleted_OneSeeder ==
  /\ []((PartlySeeded /\ OneSeeder) => StrictSubset)
  /\ [][LaterRunSkips]_vars
  /\ [][PartlySeeded => PartlySeeded']_vars

\* The second batch failed; the process was started again, counted the
\* hundred rows of the first batch, skipped and returned nil.
C21_Witness ==
  /\ fixture = LargeFixture
  /\ proc[1].runs = 2 /\ proc[1].partial
  /\ proc[1].pc = "run" /\ proc[1].seedErr = "" /\ proc[1].count = 100
  /\ proc[2].pc = "connect" /\ proc[2].runs = 1
  /\ Cardinality(store) = 100

(***************************************************************************)
(* C22  In the serverless entry point, with any number of Handler          *)
(* invocations running concurrently, the connection is opened at most      *)
(* once, no request is served with a handle that is not yet initialised,   *)
(* and when the one attempt fails or POSTGRES_URL is empty the handle      *)
(* stays nil: every request is answered with status 500 and no further     *)
(* connection is attempted.                                                *)
(***************************************************************************)
\* Invocation i has the handle that getDB returned to it.
PastGetDB(i) == calls[i].at \in { "router", "answered" }

OpenedAtMostOnce == opened.attempts <= 1

\* An invocation goes on only with the handle as once.Do left it.
NoPartHandle ==
  \A i \in Invocations :
    PastGetDB(i) => once = "done" /\ calls[i].databaseInstance = db

\* Every answer given so far is a 500, and the pool never dialled.
AllRefused ==
  /\ \A i \in Invocations :
       calls[i].at = "answered" => calls[i].status = StatusInternalServerError
  /\ opened.dials = 0

\* once.Do is over without a connection: no POSTGRES_URL, or gorm.Open
\* returned an error.
OpenFailed == once = "done" /\ (dsn = Empty \/ opened.err)

C22_OpenedOnceElseNil ==
  /\ OpenedAtMostOnce
  /\ NoPartHandle
  /\ OpenFailed => db = NilDB /\ AllRefused

\* What the code does keep: one attempt, no handle seen before once.Do is
\* over, a nil handle without POSTGRES_URL, and with a nil handle nothing
\* but 500.
C22_OpenedOnceElseNil_WhenNil ==
  /\ OpenedAtMostOnce
  /\ NoPartHandle
  /\ (once = "done" /\ dsn = Empty) => db = NilDB /\ opened.attempts = 0
  /\ (once = "done" /\ db = NilDB) => AllRefused

\* gorm.Open failed, and both invocations were answered after it: one with
\* the rejection of its page, one with a vehicle.
C22_Witness ==
  /\ OpenFailed
  /\ opened.attempts = 1
  /\ db = "unpinged"
  /\ calls[1].at = "answered" /\ calls[1].status = StatusBadRequest
  /\ calls[2].at = "answered" /\ calls[2].status = StatusOK

(***************************************************************************)
(* C23  In every successful list response total <= all_total, also when    *)
(* records are inserted into the store while the request runs: the store   *)
(* only grows and the filtered count is read before the unfiltered one.    *)
(* When the store did not change during the request and no filter is       *)
(* active, total = all_total.                                              *)
(***************************************************************************)
\* The request has no filter: the filtered count is a count of the store.
NoFilter == BuildQuery(req.f) = << >>

\* The store is as the filtered count of a request without filter saw it:
\* rows are only ever added, so none was added since.
StoreAsCounted == Cardinality(store) = Meta.Total

TotalWithinAllTotal ==
  /\ Meta.Total <= Meta.AllTotal
  /\ (NoFilter /\ StoreAsCounted) => Meta.Total = Meta.AllTotal

C23_TotalAtMostAllTotal ==
  ListOK => TotalWithinAllTotal

\* The same for the responses whose unfiltered count did not fail.
C23_TotalAtMostAllTotal_CountRead ==
  (ListOK /\ \A x \in failed : x[1] # "all") => TotalWithinAllTotal

\* A seeder inserted between the two counts of a request: no statement
\* failed, and the response has a smaller total than all_total.
C23_Witness ==
  /\ ListOK
  /\ failed = { }
  /\ NoFilter
  /\ Meta.Total < Meta.AllTotal
  /\ Meta.AllTotal <= Cardinality(store)

====
